---- MODULE Spec2Model ----
(***************************************************************************)
(* A model of the lazyraster rasterization gateway:                        *)
(*   - the single-flight LRU file cache (package filecache),               *)
(*   - the rasterizer cache (RasterCache) and the request handler that     *)
(*     uses both,                                                          *)
(*   - URL signature verification (package urlsign) and the handlers that  *)
(*     enforce it,                                                         *)
(*   - the rewritten service: Worker.Process, its artifact cache, its      *)
(*     annotations and the handler over it,                                *)
(*   - the entry points: signal handling and shutdown.                     *)
(* Each component has its own specification (SpecFC, SpecRC, SpecSig,      *)
(* SpecDoc, SpecParams, SpecRec, SpecWorker, SpecCipher, SpecProc,         *)
(* SpecShutdown, SpecWait, SpecURL, SpecOffline, SpecAnnotations,          *)
(* SpecHandlers, SpecImage, SpecListing) over its own variables; the       *)
(* variables of the other components keep their initial values.            *)
(***************************************************************************)
EXTENDS Integers, Sequences, FiniteSets, TLC

(***************************************************************************)
(* Bounds of the model.                                                    *)
(***************************************************************************)
NumProcs == 2          \* request goroutines running concurrently
NumKeys == 2           \* distinct file names / local paths requested
MaxRequests == 3       \* requests and direct cache calls started in one behaviour
CacheSize == 1         \* capacity of the file cache LRU (CACHE_SIZE), kept small so that evictions happen
RasterCacheSize == 1   \* capacity of the rasterizer LRU (RASTER_CACHE_SIZE)

MaxTime == 31           \* the times of the model, in hours: four signing buckets

SigningBucketSize == 8  \* SigningBucketSize = 8 * time.Hour, in hours

Procs == 1..NumProcs
Keys == 1..NumKeys

(***************************************************************************)
(* hashicorp/golang-lru as the caches use it.  An LRU is a sequence of     *)
(* entries [key, value], least recently used first.                        *)
(***************************************************************************)
LruContains(c, k) == \E i \in 1..Len(c) : c[i].key = k

LruEntry(c, k) == c[CHOOSE i \in 1..Len(c) : c[i].key = k]

LruWithout(c, k) == SelectSeq(c, LAMBDA e : e.key # k)

\* Cache.Get: a hit moves the entry to the most recently used end.
LruGet(c, k) == IF LruContains(c, k) THEN Append(LruWithout(c, k), LruEntry(c, k)) ELSE c

\* Cache.Add: an existing key is overwritten in place and becomes the most
\* recent; a new key is appended and the oldest entry leaves when the size is
\* exceeded.
LruAdd(c, k, v, size) ==
    IF LruContains(c, k)
    THEN Append(LruWithout(c, k), [key |-> k, value |-> v])
    ELSE LET c2 == Append(c, [key |-> k, value |-> v])
         IN  IF Len(c2) > size THEN Tail(c2) ELSE c2

\* The entries Cache.Add hands to the eviction callback.
LruAddEvicted(c, k, size) ==
    IF ~LruContains(c, k) /\ Len(c) + 1 > size THEN {Head(Append(c, [key |-> k, value |-> 0]))} ELSE {}

VARIABLES
    \* ---- file cache (FileCache) ----
    Cache,        \* FileCache.Cache: LRU of filename -> storage path
    Waiting,      \* FileCache.Waiting: filename -> channel id, 0 when the key has no slot
    closed,       \* the channels that have been closed
    nextChan,     \* the next channel id make(chan struct{}) returns
    files,        \* the storage paths that exist on disk
    orphans,      \* the storage paths whose os.Remove failed and that were not downloaded again
    \* ---- one goroutine per process ----
    pc,           \* position of the goroutine
    fkey,         \* the filename (and so the local path) it works on
    fchan,        \* waitChan: the channel it waits on
    fraster,      \* what GetRasterizer returned to it (0: nothing or an error)
    nRequests,    \* requests and direct cache calls started so far
    \* ---- history of the Fetch call in progress of each process ----
    fDownloaded,  \* it invoked DownloadFunc
    fPeerDl,      \* a Fetch call for the same key that overlaps it invoked DownloadFunc
    fEvicted,     \* the key was evicted from the LRU after it invoked DownloadFunc
    fPeerEvicted, \* the key was evicted from the LRU after an overlapping call invoked DownloadFunc
    \* ---- history of the requests ----
    fServed,      \* the keys for which a request was answered with a rendered page
    fRepeat,      \* per process: "no" when its request is the first for the key, and for a
                  \* request that arrived after one for the same key was answered: "hit" when
                  \* the key's entry was in the LRU on arrival, "miss" when it was not
    \* ---- rasterizer cache (RasterCache) ----
    rasterizers,  \* RasterCache.rasterizers: LRU of local path -> rasterizer id
    rasterLock,   \* RasterCache.rasterLock: the process holding it, 0 when free
    handles,      \* the rasterizers that were started: id -> [path, stops]
    \* ---- history of the current or last direct GetRasterizer call of each process ----
    rConstructed, \* it constructed and started a rasterizer
    rOverlap,     \* the processes whose GetRasterizer call for the same path overlapped it
    rDisturbed,   \* the path's entry left the cache, or a Run for it failed, during the call
    \* ---- URL signing and the document handlers ----
    sig,          \* a token that was generated, and the verdict of its verification
    req,          \* the document request handled last
    resp,         \* the status written in answer to it (0: no response written)
    io,           \* what serving it touched: "fetch" (file fetch or download), "raster"
                  \* (a rasterizer opened), "render" (a page rendered), "annotations"
                  \* (the annotation lookup), "storage" (the artifact store)
    \* ---- the parameter checks of Worker.Process ----
    par,          \* the parameters of a call and the error the checks return for them
    \* ---- download records and cache busting (requests handled one after another) ----
    wk,           \* Worker.Process with the artifact cache: the requests, one after another,
                  \* the Put goroutines they started, and the objects of the bucket
    ci,           \* the cipher layer called directly: the bucket, the payload last put
                  \* under each key, and the last call with what it returned
    drec,         \* the file cache keyed by download record, the clock, and the last request
    pr,           \* Worker.Process step by step: the request, its goroutines, the temporary files
    sh,           \* the signal handler of the legacy server: its position, the purge, the timer
    wt,           \* the entry point of the rewritten service: main, the wait handler, the server goroutine
    uv,           \* handler.urlToVerify: the query of a request, edited in its other parameters, and the URLs verified
    ofl,          \* the node's offline mark and the document requests under it
    an,           \* fetchAnnotations: the loop, the annotations slice and the image goroutines
    hd,           \* handleDocument and the goroutine that watches for the client's disconnect
    hi,           \* handleImage step by step: what the handler did for the request, in order
    ls            \* the two caches under document requests and listings of the file cache

fcVars == <<Cache, Waiting, closed, nextChan, files, orphans, fchan,
            fDownloaded, fPeerDl, fEvicted, fPeerEvicted>>
procVars == <<pc, fkey, fraster, nRequests>>
rcVars == <<rasterizers, rasterLock, handles, rConstructed, rOverlap, rDisturbed>>
histVars == <<fServed, fRepeat>>
cacheVars == <<fcVars, procVars, rcVars, histVars>>
sigVars == <<sig>>
reqVars == <<req, resp, io>>
parVars == <<par>>
dlVars == <<drec>>
wkVars == <<wk>>
ciVars == <<ci>>
prVars == <<pr>>
shVars == <<sh>>
wtVars == <<wt>>
uvVars == <<uv>>
oflVars == <<ofl>>
anVars == <<an>>
hdVars == <<hd>>
hiVars == <<hi>>
lsVars == <<ls>>
docVars == <<sigVars, reqVars, parVars, dlVars, wkVars, ciVars, prVars, shVars, wtVars, uvVars, oflVars, anVars, hdVars, hiVars, lsVars>>
otherThanProc == <<cacheVars, sigVars, reqVars, parVars, dlVars, wkVars, ciVars, shVars, wtVars, uvVars, oflVars, anVars, hdVars, hiVars, lsVars>>
otherVars == <<histVars, docVars>>
vars == <<fcVars, procVars, rcVars, histVars, docVars>>

(***************************************************************************)
(* URL signing (package urlsign)                                           *)
(***************************************************************************)
Times == 0..MaxTime
Secrets == {"s1", "s2"}
URLs == {"/documents/a?page=1", "/documents/b?page=1"}

\* The time bucket of a time.
Bucket(t, bucketSize) == t \div bucketSize

\* timedSecret: the secret derived from the signing secret for one bucket.
timedSecret(secret, bucket) == <<secret, bucket>>

\* GenerateToken: the HMAC of the URL under the derived secret of the bucket
\* of t; the HMAC is modelled as collision free.
GenerateToken(secret, bucketSize, t, url) ==
    <<timedSecret(secret, Bucket(t, bucketSize)), url>>

\* IsValidSignature as it would be if it accepted the bucket of now only.
IsValidSignature_NowOnly(secret, bucketSize, now, url) ==
    url.token = GenerateToken(secret, bucketSize, now, url.base)

\* IsValidSignature: the token of the URL is the token of the rest of the URL
\* for the bucket of now, the bucket before it or the bucket after it.
IsValidSignature(secret, bucketSize, now, url) ==
    \E t \in {now, now - bucketSize, now + bucketSize} :
        url.token = GenerateToken(secret, bucketSize, t, url.base)

NoSig == [stage |-> "none", secret |-> "s1", base |-> "/documents/a?page=1", tGen |-> 0,
          token |-> <<>>, vsecret |-> "s1", vbase |-> "/documents/a?page=1", now |-> 0,
          ok |-> FALSE]

\* A client signs a URL at some time.
Sign ==
    /\ sig.stage = "none"
    /\ \E secret \in Secrets, base \in URLs, t \in Times :
         sig' = [NoSig EXCEPT !.stage = "signed", !.secret = secret, !.base = base, !.tGen = t,
                              !.token = GenerateToken(secret, SigningBucketSize, t, base)]
    /\ UNCHANGED <<cacheVars, reqVars, parVars, dlVars, wkVars, ciVars, prVars, shVars, wtVars, uvVars, oflVars, anVars, hdVars, hiVars, lsVars>>

\* The signed URL, or another URL with its token, is verified at some time.
Verify ==
    /\ sig.stage = "signed"
    /\ \E secret \in Secrets, base \in URLs, now \in Times :
         sig' = [sig EXCEPT !.stage = "verified", !.vsecret = secret, !.vbase = base, !.now = now,
                            !.ok = IsValidSignature(secret, SigningBucketSize, now,
                                                    [base |-> base, token |-> sig.token])]
    /\ UNCHANGED <<cacheVars, reqVars, parVars, dlVars, wkVars, ciVars, prVars, shVars, wtVars, uvVars, oflVars, anVars, hdVars, hiVars, lsVars>>

(***************************************************************************)
(* The document handlers: RasterHttpServer.handleDocument and, in the      *)
(* rewritten service, handler.document over Worker.Process                 *)
(***************************************************************************)
\* The times at which requests are signed and served: the starts of the buckets.
DocTimes == {t \in Times : t % SigningBucketSize = 0}

\* The token-ttl values of a request: -1 when the parameter is absent.
TTLs == {-1} \cup DocTimes

NoReq == [server |-> "none", secretSet |-> FALSE, tokSecret |-> "s1", tGen |-> 0, now |-> 0,
          ttl |-> -1, traceOk |-> TRUE, page |-> "absent", paramsOk |-> TRUE,
          inRange |-> TRUE, fail |-> "none", outcome |-> "ok", ctx |-> "live"]

\* The secret the server is configured with.
ServerSecret == "s1"

\* The URL the server verifies: the request's URL with the token the client
\* computed for it.
RequestURL(r) ==
    [base |-> "/documents/a?page=1",
     token |-> GenerateToken(r.tokSecret, SigningBucketSize, r.tGen, "/documents/a?page=1")]

\* isValidSignature as it would be if it never rejected.
isValidSignature_Always(r) == TRUE

\* RasterHttpServer.isValidSignature: true when no secret is configured,
\* otherwise the verdict of urlsign.IsValidSignature; on false it has answered 403.
isValidSignature(r) ==
    \/ ~r.secretSet
    \/ IsValidSignature(ServerSecret, SigningBucketSize, r.now, RequestURL(r))

\* handleImage as it would be if it did not tell a rendering timeout from the
\* other renderer errors.
handleImageStatus_NoTimeout(r) ==
    IF r.page = "bad" \/ ~r.paramsOk THEN 400
    ELSE IF r.outcome = "badpage" THEN 404
    ELSE IF r.outcome \in {"timeout", "error"} THEN 500
    ELSE IF r.outcome = "closed" THEN 0
    ELSE IF r.outcome = "encode" THEN 500
    ELSE 200

\* handleImage: the status of a page request once the rasterizer is there.
handleImageStatus(r) ==
    IF r.page = "bad" \/ ~r.paramsOk THEN 400
    ELSE IF r.outcome = "badpage" THEN 404
    ELSE IF r.outcome = "timeout" THEN 503
    ELSE IF r.outcome = "error" THEN 500
    ELSE IF r.outcome = "closed" THEN 0
    ELSE IF r.outcome = "encode" THEN 500
    ELSE 200

\* handleDocument: the status it answers, the signature check coming first.
handleDocumentStatus(r) ==
    IF ~isValidSignature(r) THEN 403
    ELSE IF r.fail = "path" THEN 404
    ELSE IF r.fail = "offline" THEN 503
    ELSE IF r.fail = "fetch" THEN 404
    ELSE IF r.fail = "raster" THEN 500
    ELSE IF r.fail = "closed" THEN 0
    ELSE IF r.page = "absent" THEN 200
    ELSE handleImageStatus(r)

\* handleDocument: what it touches on the way: the file is fetched and the
\* rasterizer opened before handleImage looks at the page, the width and the
\* scale.
handleDocumentIO(r) ==
    IF ~isValidSignature(r) \/ r.fail \in {"path", "offline"} THEN {}
    ELSE IF r.fail \in {"fetch", "raster"} THEN {"fetch"}
    ELSE IF r.fail = "closed" \/ r.page = "absent" THEN {"fetch", "raster"}
    ELSE IF r.page = "bad" \/ ~r.paramsOk THEN {"fetch", "raster"}
    ELSE {"fetch", "raster", "render"}

\* RasterHttpServer.handleDocument serves a request.
handleDocument ==
    /\ req.server = "none"
    /\ \E secretSet \in BOOLEAN, tokSecret \in Secrets, tGen \in DocTimes, now \in DocTimes,
          ttl \in TTLs, page \in {"absent", "bad", "ok"}, paramsOk \in BOOLEAN,
          fail \in {"none", "path", "offline", "fetch", "raster", "closed"},
          outcome \in {"ok", "badpage", "timeout", "error", "closed", "encode"} :
         LET r == [NoReq EXCEPT !.server = "legacy", !.secretSet = secretSet,
                                !.tokSecret = tokSecret, !.tGen = tGen, !.now = now,
                                !.ttl = ttl, !.page = page, !.paramsOk = paramsOk,
                                !.fail = fail, !.outcome = outcome]
         IN  /\ req' = r
             /\ resp' = handleDocumentStatus(r)
             /\ io' = handleDocumentIO(r)
    /\ UNCHANGED <<cacheVars, sigVars, parVars, dlVars, wkVars, ciVars, prVars, shVars, wtVars, uvVars, oflVars, anVars, hdVars, hiVars, lsVars>>

\* Worker.Process: the kind of error it returns ("" for none): the checks of
\* the page, the width, the scale and the dpi, then the signature, then the
\* fetch and the rendering.
Process(r) ==
    IF r.page = "zero" THEN "client"
    ELSE IF ~r.inRange THEN "client"
    ELSE IF ~IsValidSignature(ServerSecret, SigningBucketSize, r.now, RequestURL(r)) THEN "client"
    ELSE IF r.outcome = "notfound" THEN "notFound"
    ELSE IF r.outcome = "error" THEN "other"
    ELSE ""

\* Worker.Metadata: the signature, then the fetch and the page count.
Metadata(r) ==
    IF ~IsValidSignature(ServerSecret, SigningBucketSize, r.now, RequestURL(r)) THEN "client"
    ELSE IF r.outcome = "notfound" THEN "notFound"
    ELSE IF r.outcome = "error" THEN "other"
    ELSE ""

\* The answer by the error alone, the deadline not looked at.
serviceStatus_NoDeadline(r, err) ==
    IF r.ctx = "canceled" THEN 0
    ELSE IF err = "client" THEN 400
    ELSE IF err = "notFound" THEN 404
    ELSE IF err = "other" THEN 500
    ELSE 200

\* What handler.document and handler.metadata answer once the service has
\* returned: nothing when the request was cancelled, 408 when its deadline
\* passed, else the status of the error.
serviceStatus(r, err) ==
    IF r.ctx = "canceled" THEN 0
    ELSE IF r.ctx = "deadline" THEN 408
    ELSE IF err = "client" THEN 400
    ELSE IF err = "notFound" THEN 404
    ELSE IF err = "other" THEN 500
    ELSE 200

\* handler.document: the status it answers.
documentStatus(r) ==
    IF ~r.traceOk THEN 500
    ELSE IF r.page = "absent" THEN serviceStatus(r, Metadata(r))
    ELSE IF r.page = "bad" THEN 400
    ELSE IF ~r.paramsOk THEN 400
    ELSE serviceStatus(r, Process(r))

\* Worker.Process with the fetch goroutine started ahead of the signature
\* check.
documentIO_FetchFirst(r) ==
    IF ~r.traceOk THEN {}
    ELSE IF r.page = "absent" THEN (IF Metadata(r) = "client" THEN {} ELSE {"fetch"})
    ELSE IF r.page = "bad" \/ ~r.paramsOk THEN {}
    ELSE IF r.page = "zero" \/ ~r.inRange THEN {}
    ELSE IF r.outcome = "notfound" \/ Process(r) = "client" THEN {"fetch", "annotations"}
    ELSE {"fetch", "annotations", "storage", "render"}

\* handler.document: what it touches on the way: Worker.Process and
\* Worker.Metadata fetch the file once their checks have passed; Process
\* looks the annotations up beside the fetch, and once the file is there it
\* asks the artifact store for the page and renders it.
documentIO(r) ==
    IF ~r.traceOk THEN {}
    ELSE IF r.page = "absent" THEN (IF Metadata(r) = "client" THEN {} ELSE {"fetch"})
    ELSE IF r.page = "bad" \/ ~r.paramsOk THEN {}
    ELSE IF Process(r) = "client" THEN {}
    ELSE IF r.outcome = "notfound" THEN {"fetch", "annotations"}
    ELSE {"fetch", "annotations", "storage", "render"}

\* handler.document serves a request.
document ==
    /\ req.server = "none"
    /\ \E tokSecret \in Secrets, tGen \in DocTimes, now \in DocTimes, ttl \in TTLs,
          traceOk \in BOOLEAN, page \in {"absent", "bad", "zero", "ok"},
          paramsOk \in BOOLEAN, inRange \in BOOLEAN,
          outcome \in {"ok", "notfound", "error"}, ctx \in {"live", "canceled", "deadline"} :
         LET r == [NoReq EXCEPT !.server = "v2", !.tokSecret = tokSecret, !.tGen = tGen,
                                !.now = now, !.ttl = ttl, !.traceOk = traceOk, !.page = page,
                                !.paramsOk = paramsOk, !.inRange = inRange,
                                !.outcome = outcome, !.ctx = ctx]
         IN  /\ req' = r
             /\ resp' = documentStatus(r)
             /\ io' = documentIO(r)
    /\ UNCHANGED <<cacheVars, sigVars, parVars, dlVars, wkVars, ciVars, prVars, shVars, wtVars, uvVars, oflVars, anVars, hdVars, hiVars, lsVars>>

(***************************************************************************)
(* Download records and cache busting: RasterHttpServer.handleDocument up  *)
(* to the end of its fetch, for requests handled one after another.  The   *)
(* download record and FetchNewerThan belong to package filecache, whose   *)
(* implementation is not part of the sources; they are modelled from the   *)
(* specification.                                                          *)
(***************************************************************************)
MaxClock == 2        \* the instants of the model, in seconds since the epoch: 1..MaxClock
MaxDocRequests == 2  \* document requests handled in one behaviour

DocPaths == {"/documents/somewhere/a.pdf", "/documents/somewhere/b.pdf"}
HeaderNames == {"DropboxAccessToken", "User-Agent"}
HeaderValues == {"", "v1", "v2"}     \* "": the request does not carry the header
Headers == {h \in [HeaderNames -> HeaderValues] : h["User-Agent"] # "v2"}

\* The lower-cased header names.
ToLower(h) == IF h = "DropboxAccessToken" THEN "dropboxaccesstoken" ELSE "user-agent"

\* The arguments that take part in the name of a download record.
HashableArgs == {"dropboxaccesstoken"}

\* getHTTPHeaders: the first value of every header the request carries.
getHTTPHeaders(h) == {<<n, h[n]>> : n \in {x \in HeaderNames : h[x] # ""}}

\* The record as it would be if the arguments took no part in its name.
NewDownloadRecord_PathOnly(path, args) ==
    [path |-> path, hashedArgs |-> {}]

\* filecache.NewDownloadRecord: the path and the hashable arguments, by
\* lower-cased name; the hash of the arguments is taken as collision free.
NewDownloadRecord(path, args) ==
    [path |-> path,
     hashedArgs |-> {<<ToLower(a[1]), a[2]>> : a \in {x \in args : ToLower(x[1]) \in HashableArgs}}]

\* The raw newerThan parameter: absent, not an unsigned number, a number n, or
\* a number of 2^32 or more.
NewerThans == {[kind |-> k, n |-> 0] : k \in {"absent", "garbage", "overflow"}}
              \cup {[kind |-> "number", n |-> n] : n \in 0..(MaxClock + 1)}

\* timestampForRequest: strconv.ParseUint(newerThan, 10, 32), and the epoch
\* when it fails.  In seconds since the epoch.
timestampForRequest(raw) == IF raw.kind = "number" THEN raw.n ELSE 0

NoDownloads ==
    [cache |-> <<>>, clock |-> 1, n |-> 0,
     last |-> [done |-> FALSE, path |-> "", headers |-> [h \in HeaderNames |-> ""],
               newerThan |-> [kind |-> "absent", n |-> 0],
               key |-> [path |-> "", hashedArgs |-> {}],
               cached |-> FALSE, other |-> FALSE, mtime |-> 0,
               evicted |-> FALSE, downloaded |-> FALSE, ok |-> FALSE, origin |-> ""]]

\* FileCache.Fetch for one caller at a time: the cached file, or a download
\* and Cache.Add.  The result is <<cache, downloaded, ok>>; the value of an
\* entry is the file on disk: the access token it was downloaded with and its
\* modification time.
FetchSeq(cache, key, token, now, dlOk) ==
    IF LruContains(cache, key) THEN <<cache, FALSE, TRUE>>
    ELSE IF dlOk THEN <<LruAdd(cache, key, [origin |-> token, mtime |-> now], CacheSize), TRUE, TRUE>>
    ELSE <<cache, TRUE, FALSE>>

\* FileCache.FetchNewerThan: a cached file whose modification time is not
\* after the timestamp is evicted, and the file is fetched.
FetchNewerThan(cache, key, timestamp, token, now, dlOk) ==
    IF LruContains(cache, key) /\ ~(LruEntry(cache, key).value.mtime > timestamp)
    THEN FetchSeq(LruWithout(cache, key), key, token, now, dlOk)
    ELSE FetchSeq(cache, key, token, now, dlOk)

\* handleDocument: processDocumentParams, then the fetch.
DocumentFetch ==
    /\ drec.n < MaxDocRequests
    /\ \E path \in DocPaths, h \in Headers, raw \in NewerThans, dlOk \in BOOLEAN :
         LET key == NewDownloadRecord(path, getHTTPHeaders(h))
             token == h["DropboxAccessToken"]
             timestamp == timestampForRequest(raw)
             cached == LruContains(drec.cache, key)
             r == IF 0 < timestamp
                  THEN FetchNewerThan(drec.cache, key, timestamp, token, drec.clock, dlOk)
                  ELSE FetchSeq(drec.cache, key, token, drec.clock, dlOk)
         IN  drec' = [drec EXCEPT
                      !.cache = r[1],
                      !.n = @ + 1,
                      !.last = [done |-> TRUE, path |-> path, headers |-> h, newerThan |-> raw,
                                key |-> key,
                                cached |-> cached,
                                other |-> \E i \in 1..Len(drec.cache) :
                                             /\ drec.cache[i].key.path = path
                                             /\ drec.cache[i].value.origin # token,
                                mtime |-> IF cached THEN LruEntry(drec.cache, key).value.mtime ELSE 0,
                                evicted |-> cached /\ r[2],
                                downloaded |-> r[2],
                                ok |-> r[3],
                                origin |-> IF r[3] THEN LruEntry(r[1], key).value.origin ELSE ""]]
    /\ UNCHANGED <<cacheVars, sigVars, reqVars, parVars, wkVars, ciVars, prVars, shVars, wtVars, uvVars, oflVars, anVars, hdVars, hiVars, lsVars>>

\* Time passes between two requests.
Tick ==
    /\ drec.clock < MaxClock
    /\ drec' = [drec EXCEPT !.clock = @ + 1]
    /\ UNCHANGED <<cacheVars, sigVars, reqVars, parVars, wkVars, ciVars, prVars, shVars, wtVars, uvVars, oflVars, anVars, hdVars, hiVars, lsVars>>

(***************************************************************************)
(* The parameter checks of Worker.Process                                  *)
(***************************************************************************)
MaxWidth == 4096   \* width > 4096
MaxScale == 3      \* scale > 3
MaxDPI == 600      \* dpi > 600

\* Go's int wraps around; the model gives it the width of TLC's integers.
MaxInt == 2147483647

\* The scale is a float32; the model counts it in thousandths.
Pages == {-MaxInt - 1, -1, 0, 1, 2}
Widths == {-1, 0, 1, MaxWidth, MaxWidth + 1}
Scales == {-1, 0, 1500, MaxScale * 1000, MaxScale * 1000 + 1}
DPIs == {-1, 0, MaxDPI, MaxDPI + 1}

NoParams ==
    [stage |-> "none", page |-> 1, width |-> 0, scale |-> 0, dpi |-> 0, sigOk |-> TRUE,
     err |-> "", ret |-> ""]

\* page--: the smallest int wraps to the largest.
Decrement(n) == IF n = -MaxInt - 1 THEN MaxInt ELSE n - 1

\* The checks as they would be if they rejected the largest width too.
ProcessParams_WidthOffByOne(page, width, scale, dpi) ==
    IF Decrement(page) < 0 THEN "invalid page"
    ELSE IF width < 0 THEN "invalid width"
    ELSE IF width >= MaxWidth THEN "invalid width, can't be bigger than 4096"
    ELSE IF scale < 0 THEN "invalid scale"
    ELSE IF scale > MaxScale * 1000 THEN "invalid scale, can't be bigger than 3"
    ELSE IF dpi > MaxDPI THEN "invalid dpi, can't  be bigger than 600"
    ELSE ""

\* Worker.Process, its checks of the parameters: the client error they end in,
\* "" when they pass.  The page is decremented first: the first page of the
\* frontend is 1.
ProcessParams(page, width, scale, dpi) ==
    IF Decrement(page) < 0 THEN "invalid page"
    ELSE IF width < 0 THEN "invalid width"
    ELSE IF width > MaxWidth THEN "invalid width, can't be bigger than 4096"
    ELSE IF scale < 0 THEN "invalid scale"
    ELSE IF scale > MaxScale * 1000 THEN "invalid scale, can't be bigger than 3"
    ELSE IF dpi > MaxDPI THEN "invalid dpi, can't  be bigger than 600"
    ELSE ""

\* The checks as they would be with the signature looked at first.
ProcessChecks_SignatureFirst(page, width, scale, dpi, sigOk) ==
    IF ~sigOk THEN "invalid token"
    ELSE ProcessParams(page, width, scale, dpi)

\* Worker.Process up to the fetch: the checks of the parameters, then
\* urlsign.IsValidSignature.
ProcessChecks(page, width, scale, dpi, sigOk) ==
    IF ProcessParams(page, width, scale, dpi) # "" THEN ProcessParams(page, width, scale, dpi)
    ELSE IF ~sigOk THEN "invalid token"
    ELSE ""

\* Worker.Process is called with some parameters and checks them.
CheckParams ==
    /\ par.stage = "none"
    /\ \E page \in Pages, width \in Widths, scale \in Scales, dpi \in DPIs, sigOk \in BOOLEAN :
         par' = [stage |-> "checked", page |-> page, width |-> width, scale |-> scale,
                 dpi |-> dpi, sigOk |-> sigOk,
                 err |-> ProcessParams(page, width, scale, dpi),
                 ret |-> ProcessChecks(page, width, scale, dpi, sigOk)]
    /\ UNCHANGED <<cacheVars, sigVars, reqVars, dlVars, wkVars, ciVars, prVars, shVars, wtVars, uvVars, oflVars, anVars, hdVars, hiVars, lsVars>>

(***************************************************************************)
(* The artifact cache: Worker.Process over the storage layers Bypass,      *)
(* Cipher and Cache.  Requests are handled one after another; the Put      *)
(* goroutine a request starts runs beside the requests that follow.        *)
(***************************************************************************)
NonceSize == 1          \* bytes of a nonce (gcm.NonceSize() is 12)
MaxWorkerRequests == 2  \* requests Process handles in one behaviour

Bytes == 0..1
Nonces == [1..NonceSize -> Bytes]
WorkerPages == 0..2     \* the page parameter, counted from 1
WorkerRequests == 1..MaxWorkerRequests

RECURSIVE SumSeq(_)
SumSeq(q) == IF Len(q) = 0 THEN 0 ELSE Head(q) + SumSeq(Tail(q))

\* The key stream and the authentication tag of the AEAD, one byte each.
KeyStream(nonce, i) == (SumSeq(nonce) + i) % 2
Tag(nonce, text) == (SumSeq(nonce) + SumSeq(text) + Len(text)) % 2

\* gcm.Seal(dst, nonce, plaintext, nil): dst, then the ciphertext, then the tag.
Seal(dst, nonce, plaintext) ==
    dst \o [i \in 1..Len(plaintext) |-> (plaintext[i] + KeyStream(nonce, i)) % 2]
        \o <<Tag(nonce, plaintext)>>

\* gcm.Open(nil, nonce, ciphertext, nil): the plaintext, or an error when the
\* tag does not authenticate it.
Open(nonce, ciphertext) ==
    IF Len(ciphertext) < 1 THEN [err |-> TRUE, text |-> <<>>]
    ELSE LET body == SubSeq(ciphertext, 1, Len(ciphertext) - 1)
             text == [i \in 1..Len(body) |-> (body[i] + KeyStream(nonce, i)) % 2]
         IN  IF Tag(nonce, text) = ciphertext[Len(ciphertext)]
             THEN [err |-> FALSE, text |-> text]
             ELSE [err |-> TRUE, text |-> <<>>]

\* An io.ReadCloser: nil, or a reader of bytes.
NilReader == [nil |-> TRUE, bytes |-> <<>>]
Reader(b) == [nil |-> FALSE, bytes |-> b]

NoObject == [present |-> FALSE, body |-> <<>>]

\* Cache.Get as it would be if a missing key were an error like any other.
CacheGet_MissingIsError(bucket, key, s3) ==
    IF s3 = "error" \/ ~bucket[key].present
    THEN [reader |-> NilReader, err |-> "fail to fetch the object"]
    ELSE [reader |-> Reader(bucket[key].body), err |-> ""]

\* Cache.Get: GetObjectWithContext; NoSuchKey is (nil, nil).
CacheGet(bucket, key, s3) ==
    IF s3 = "error" THEN [reader |-> NilReader, err |-> "fail to fetch the object"]
    ELSE IF ~bucket[key].present THEN [reader |-> NilReader, err |-> ""]
    ELSE [reader |-> Reader(bucket[key].body), err |-> ""]

\* Cache.Put: PutObjectWithContext.
CachePut(bucket, key, payload, s3) ==
    IF s3 = "error" THEN [bucket |-> bucket, err |-> "fail to put the object"]
    ELSE [bucket |-> [bucket EXCEPT ![key] = [present |-> TRUE, body |-> payload]], err |-> ""]

\* Cipher.Get: the stored payload is the nonce followed by the sealed bytes.
CipherGet(bucket, key, s3) ==
    LET r == CacheGet(bucket, key, s3)
    IN  IF r.err # "" THEN r
        ELSE IF r.reader.nil THEN [reader |-> NilReader, err |-> ""]
        ELSE LET payload == r.reader.bytes
             IN  IF Len(payload) < NonceSize
                 THEN [reader |-> NilReader, err |-> "payload smaller than nonce size"]
                 ELSE LET nonce == SubSeq(payload, 1, NonceSize)
                          ciphertext == SubSeq(payload, NonceSize + 1, Len(payload))
                          opened == Open(nonce, ciphertext)
                      IN  IF opened.err
                          THEN [reader |-> NilReader, err |-> "fail to decrypt payload"]
                          ELSE [reader |-> Reader(opened.text), err |-> ""]

\* Cipher.Put as it would be if the nonce were not stored in front of the
\* sealed bytes.
CipherPut_NoNonce(bucket, key, payload, nonce, s3) ==
    CachePut(bucket, key, Seal(<<>>, nonce, payload), s3)

\* Cipher.Put: Seal(nonce, nonce, payload, nil) under a fresh nonce.
CipherPut(bucket, key, payload, nonce, s3) ==
    CachePut(bucket, key, Seal(nonce, nonce, payload), s3)

\* Bypass.Get and Bypass.Put: nothing is done when the context carries the flag.
BypassGet(bypass, bucket, key, s3) ==
    IF bypass THEN [reader |-> NilReader, err |-> ""] ELSE CipherGet(bucket, key, s3)

BypassPut(bypass, bucket, key, payload, nonce, s3) ==
    IF bypass THEN [bucket |-> bucket, err |-> ""] ELSE CipherPut(bucket, key, payload, nonce, s3)

\* strconv.Itoa for the numbers of the model, as a sequence of digits.
Itoa(n) == IF n < 10 THEN <<n>> ELSE <<n \div 10, n % 10>>

\* generateHash: SHA-256, taken as collision free, over the payload followed
\* by the concatenated parameter strings.
generateHash(payload, page, width) == <<payload, Itoa(page) \o Itoa(width)>>

\* The file of the requests and the PNG lazypdf.SaveToPNG makes of its page.
Payload == <<1, 0>>
PNG(page) == <<page % 2, 1>>
ArtifactKeys == {generateHash(Payload, page - 1, 0) : page \in 1..2}

NoRequest ==
    [pc |-> "idle", page |-> 0, bypass |-> FALSE, cancelled |-> FALSE,
     key |-> generateHash(Payload, 0, 0), result |-> NilReader,
     absent |-> FALSE,    \* the object store was asked and reported that the key does not exist
     hit |-> FALSE,       \* Storage.Get returned a payload
     stored |-> <<>>,     \* the payload it returned
     rendered |-> FALSE,  \* lazypdf.SaveToPNG rendered the page
     written |-> FALSE,   \* io.Copy wrote the result to the output
     out |-> <<>>, ret |-> ""]
NoPut ==
    [stage |-> "none", ctx |-> "background", key |-> generateHash(Payload, 0, 0),
     bytes |-> <<>>, outcome |-> "",
     afterCancel |-> FALSE]   \* the request's context was done when Put was called
NoWork ==
    [n |-> 0,
     reqs |-> [i \in WorkerRequests |-> NoRequest],
     puts |-> [i \in WorkerRequests |-> NoPut],
     bucket |-> [k \in ArtifactKeys |-> NoObject]]

\* The context a call runs on is done: the request's context when the client
\* went away or the handler returned; context.Background() never.
Done(ctx, i) == ctx = "request" /\ wk.reqs[i].cancelled
\* ctx.Value(BypassKey): context.Background() carries no value.
Value(ctx, i) == ctx = "request" /\ wk.reqs[i].bypass
\* A call of the object store on a context that is done fails.
S3Outcomes(ctx, i) == IF Done(ctx, i) THEN {"error"} ELSE {"ok", "error"}

\* What is kept of a request once the next one has arrived: its context.
Returned(r) ==
    [NoRequest EXCEPT !.pc = "done", !.bypass = r.bypass, !.cancelled = r.cancelled]

\* Process: the checks and fetchFile.
ProcessStart ==
    /\ wk.n < MaxWorkerRequests
    /\ wk.n > 0 => wk.reqs[wk.n].pc = "done"
    /\ \E page \in WorkerPages, bypass \in BOOLEAN, sigOk \in BOOLEAN, fetchOk \in BOOLEAN :
         LET i == wk.n + 1
             err == IF ProcessParams(page, 0, 0, 0) # "" THEN ProcessParams(page, 0, 0, 0)
                    ELSE IF ~sigOk THEN "invalid token"
                    ELSE IF ~fetchOk THEN "fail to fetch the file"
                    ELSE ""
             new == [NoRequest EXCEPT
                       !.pc = IF err = "" THEN "get" ELSE "done",
                       !.page = page, !.bypass = bypass, !.ret = err,
                       !.key = generateHash(Payload, IF err = "" THEN page - 1 ELSE 0, 0)]
         IN  wk' = [wk EXCEPT
                      !.n = i,
                      !.reqs = [j \in WorkerRequests |->
                                  IF j = i THEN new
                                  ELSE IF j = i - 1 THEN Returned(wk.reqs[j])
                                  ELSE wk.reqs[j]]]
    /\ UNCHANGED <<cacheVars, sigVars, reqVars, parVars, dlVars, ciVars, prVars, shVars, wtVars, uvVars, oflVars, anVars, hdVars, hiVars, lsVars>>

\* Process after Storage.Get, as it would be if it rendered whatever Get returned.
AfterGet_AlwaysRender(reader) == "render"

\* Process after Storage.Get: the page is rendered only when there is no result.
AfterGet(reader) == IF reader.nil THEN "render" ELSE "copy"

\* The object store is asked for the key of request i and reports NoSuchKey.
Absent(i, s3) ==
    ~Value("request", i) /\ s3 = "ok" /\ ~wk.bucket[wk.reqs[i].key].present

\* Process: w.Storage.Get(ctx, hash).
StorageGet ==
    /\ wk.n > 0 /\ wk.reqs[wk.n].pc = "get"
    /\ \E s3 \in S3Outcomes("request", wk.n) :
         LET i == wk.n
             r == BypassGet(Value("request", i), wk.bucket, wk.reqs[i].key, s3)
         IN  wk' = [wk EXCEPT
                      !.reqs[i] = IF r.err # ""
                                  THEN [@ EXCEPT !.pc = "done", !.ret = r.err,
                                                 !.absent = Absent(i, s3)]
                                  ELSE [@ EXCEPT !.pc = AfterGet(r.reader), !.result = r.reader,
                                                 !.absent = Absent(i, s3),
                                                 !.hit = ~r.reader.nil,
                                                 !.stored = r.reader.bytes]]
    /\ UNCHANGED <<cacheVars, sigVars, reqVars, parVars, dlVars, ciVars, prVars, shVars, wtVars, uvVars, oflVars, anVars, hdVars, hiVars, lsVars>>

\* The context of the Put goroutine as it would be if it were the request's.
StorageCtx_Request == "request"

\* The context of the Put goroutine: StartSpanFromContext(context.Background(), ...).
StorageCtx == "background"

\* Process: lazypdf.SaveToPNG and the start of the Put goroutine.
SaveToPNG ==
    /\ wk.n > 0 /\ wk.reqs[wk.n].pc = "render"
    /\ \E ok \in BOOLEAN :
         LET i == wk.n
             storageBytes == PNG(wk.reqs[i].page - 1)
         IN  IF ok
             THEN wk' = [wk EXCEPT
                           !.reqs[i] = [@ EXCEPT !.pc = "copy", !.rendered = TRUE,
                                                 !.result = Reader(storageBytes)],
                           !.puts[i] = [stage |-> "scheduled", ctx |-> StorageCtx,
                                        key |-> wk.reqs[i].key, bytes |-> storageBytes,
                                        outcome |-> "", afterCancel |-> FALSE]]
             ELSE wk' = [wk EXCEPT
                           !.reqs[i] = [@ EXCEPT !.pc = "done",
                                                 !.ret = "fail to extract the PNG from the PDF"]]
    /\ UNCHANGED <<cacheVars, sigVars, reqVars, parVars, dlVars, ciVars, prVars, shVars, wtVars, uvVars, oflVars, anVars, hdVars, hiVars, lsVars>>

\* Process: io.Copy(output, result) and the return.
Copy ==
    /\ wk.n > 0 /\ wk.reqs[wk.n].pc = "copy"
    /\ \E ok \in BOOLEAN :
         LET i == wk.n
         IN  wk' = [wk EXCEPT
                      !.reqs[i] = IF ok
                                  THEN [@ EXCEPT !.pc = "done", !.written = TRUE,
                                                 !.out = wk.reqs[i].result.bytes]
                                  ELSE [@ EXCEPT !.pc = "done",
                                                 !.ret = "fail write the result to the output"]]
    /\ UNCHANGED <<cacheVars, sigVars, reqVars, parVars, dlVars, ciVars, prVars, shVars, wtVars, uvVars, oflVars, anVars, hdVars, hiVars, lsVars>>

\* The Put goroutine on an error, as it would be if the error failed the request.
onPutError_Fail(ret, err) == IF err # "" THEN err ELSE ret

\* The Put goroutine on an error: the error is logged, what Process returns is
\* left alone.
onPutError(ret, err) == ret

\* The Put goroutine: w.Storage.Put(storageCtx, hash, storageBytes).
StoragePut(i) ==
    /\ wk.puts[i].stage = "scheduled"
    /\ \E s3 \in S3Outcomes(wk.puts[i].ctx, i), nonce \in Nonces :
         LET put == wk.puts[i]
             r == BypassPut(Value(put.ctx, i), wk.bucket, put.key, put.bytes, nonce, s3)
         IN  wk' = [wk EXCEPT
                      !.bucket = r.bucket,
                      !.puts[i] = [@ EXCEPT !.stage = "done",
                                            !.afterCancel = wk.reqs[i].cancelled,
                                            !.outcome = IF Done(put.ctx, i) THEN "aborted"
                                                        ELSE IF r.err # "" THEN "failed"
                                                        ELSE IF Value(put.ctx, i) THEN "bypassed"
                                                        ELSE "stored"],
                      !.reqs[i] = [@ EXCEPT !.ret = onPutError(@, r.err)]]
    /\ UNCHANGED <<cacheVars, sigVars, reqVars, parVars, dlVars, ciVars, prVars, shVars, wtVars, uvVars, oflVars, anVars, hdVars, hiVars, lsVars>>

\* The client goes away, or the handler returns: the request's context is done.
Cancel(i) ==
    /\ i <= wk.n
    /\ ~wk.reqs[i].cancelled
    /\ wk' = [wk EXCEPT !.reqs[i] = [@ EXCEPT !.cancelled = TRUE]]
    /\ UNCHANGED <<cacheVars, sigVars, reqVars, parVars, dlVars, ciVars, prVars, shVars, wtVars, uvVars, oflVars, anVars, hdVars, hiVars, lsVars>>

(***************************************************************************)
(* The cipher layer on its own: Put and Get called with any key and any    *)
(* payload.                                                                *)
(***************************************************************************)
MaxPayload == 2   \* bytes of a payload

Payloads == UNION {[1..n -> Bytes] : n \in 0..MaxPayload}

NoCalls ==
    [bucket |-> [k \in ArtifactKeys |-> NoObject],
     put |-> [k \in ArtifactKeys |-> [ok |-> FALSE, v |-> <<>>]],
     last |-> [op |-> "none", key |-> generateHash(Payload, 0, 0), s3 |-> "ok",
               err |-> "", reader |-> NilReader]]

\* Cipher.Put(ctx, key, payload).
CipherPutCall ==
    /\ \E key \in ArtifactKeys, v \in Payloads, nonce \in Nonces, s3 \in {"ok", "error"} :
         LET r == CipherPut(ci.bucket, key, v, nonce, s3)
         IN  ci' = [bucket |-> r.bucket,
                    put |-> IF r.err = "" THEN [ci.put EXCEPT ![key] = [ok |-> TRUE, v |-> v]]
                            ELSE ci.put,
                    last |-> [op |-> "put", key |-> key, s3 |-> s3, err |-> r.err,
                              reader |-> NilReader]]
    /\ UNCHANGED <<cacheVars, sigVars, reqVars, parVars, dlVars, wkVars, prVars, shVars, wtVars, uvVars, oflVars, anVars, hdVars, hiVars, lsVars>>

\* Cipher.Get(ctx, key).
CipherGetCall ==
    /\ \E key \in ArtifactKeys, s3 \in {"ok", "error"} :
         LET r == CipherGet(ci.bucket, key, s3)
         IN  ci' = [ci EXCEPT !.last = [op |-> "get", key |-> key, s3 |-> s3, err |-> r.err,
                                        reader |-> r.reader]]
    /\ UNCHANGED <<cacheVars, sigVars, reqVars, parVars, dlVars, wkVars, prVars, shVars, wtVars, uvVars, oflVars, anVars, hdVars, hiVars, lsVars>>

(***************************************************************************)
(* Worker.Process step by step (the revision that fetches the file in a    *)
(* goroutine and the annotations beside it), under handler.document: one   *)
(* request, its fetch goroutine, the goroutines that download the          *)
(* annotation images of the page into temporary files, and the goroutines  *)
(* that remove those files.                                                *)
(***************************************************************************)
NumImages == 2       \* image annotations on the requested page: 0..NumImages

Images == 1..NumImages
Formats == {"png", "html", "gif"}      \* "gif": a format Process does not know

\* An error is the chain of its layers, outermost first.  A layer made by
\* fmt.Errorf with %w unwraps to the next one; a ServiceError carries its
\* origin and does not unwrap; errors.New and fmt.Errorf without %w make a
\* chain of one layer.  The text of the innermost layer says what failed.
NoError == <<>>

ErrorsNew(text) == <<[kind |-> "plain", origin |-> "", text |-> text]>>

newClientError(text) == <<[kind |-> "service", origin |-> "client", text |-> text]>>

newNotFoundError(text) == <<[kind |-> "service", origin |-> "notFound", text |-> text]>>

\* fmt.Errorf("...: %v", err): the error's text without the error.
Errorf_NoWrap(err) == ErrorsNew(err[Len(err)].text)

\* fmt.Errorf("...: %w", err)
Errorf(err) == <<[kind |-> "wrap", origin |-> "", text |-> ""]>> \o err

\* errors.Is(err, target) for a target ServiceError of the given origin:
\* the chain is walked from the outside; a ServiceError answers by its Is
\* method, which compares the origins.
RECURSIVE ErrorsIs(_, _)
ErrorsIs(err, origin) ==
    IF err = NoError THEN FALSE
    ELSE IF Head(err).kind = "service" THEN Head(err).origin = origin
    ELSE IF Head(err).kind = "wrap" THEN ErrorsIs(Tail(err), origin)
    ELSE FALSE

\* The class handler.document finds in the error of the service.
errorClass(err) ==
    IF err = NoError THEN ""
    ELSE IF ErrorsIs(err, "client") THEN "client"
    ELSE IF ErrorsIs(err, "notFound") THEN "notFound"
    ELSE "other"

\* What failed: the text of the innermost layer.
Cause(err) == err[Len(err)].text

\* How a fetch from the origin can end, and the error fetchFile returns.
FetchOutcomes == {"ok", "empty", "absent", "badpath", "failed"}

fetchFile(outcome) ==
    CASE outcome = "absent" -> newNotFoundError("object absent")
      [] outcome = "badpath" -> newClientError("invalid path")
      [] outcome = "failed" -> ErrorsNew("fetch failed")
      [] OTHER -> NoError

NoProc ==
    [pc |-> "idle",          \* position of the request
     format |-> "png",
     armed |-> FALSE,        \* the deferred annotationsCleanup is registered
     fpc |-> "none",         \* the fetch goroutine: "none", "fetch", "send", "done"
     ferr |-> NoError,       \* the error it sends, NoError when it sends the payload
     absent |-> FALSE,       \* the origin reported the document absent
     img |-> [j \in Images |-> "none"],   \* the goroutine of each image annotation
     gerr |-> NoError,       \* the first error of the errgroup
     tmp |-> {},             \* the temporary files on disk, by image
     created |-> {},         \* the temporary files that were created
     registered |-> {},      \* temporaryAnnotationFiles
     rm |-> [j \in Images |-> "none"],    \* the removal goroutine of each file
     ret |-> NoError,        \* what Process returned
     ctx |-> "live",         \* the request's context when Process returned
     status |-> 0]           \* the status answered (0: none)

\* cleanup(): one goroutine per registered file.
cleanup(p) ==
    [p EXCEPT !.rm = [j \in Images |->
                        IF j \in p.registered /\ p.rm[j] = "none" THEN "started"
                        ELSE p.rm[j]]]

\* Process returns without running its deferred calls.
Return_NoDefer(p, err) ==
    [p EXCEPT !.pc = "returned", !.ret = err]

\* Process returns err: the deferred annotationsCleanup runs when registered.
Return(p, err) ==
    [(IF p.armed THEN cleanup(p) ELSE p) EXCEPT !.pc = "returned", !.ret = err]

\* handler.document calls Process: the checks, then the fetch goroutine is
\* started and the format is looked at.  A request that passed the signature
\* check carries a token, so extractToken does not fail.
ProcessCall ==
    /\ pr.pc = "idle"
    /\ \E checks \in {"ok", "invalid token"}, format \in Formats :
         pr' = IF checks # "ok" THEN Return([pr EXCEPT !.format = format],
                                            newClientError(checks))
               ELSE IF format = "png"
                    THEN [pr EXCEPT !.format = format, !.fpc = "fetch", !.pc = "annotations"]
               ELSE IF format = "html"
                    THEN [pr EXCEPT !.format = format, !.fpc = "fetch", !.pc = "recv"]
               ELSE Return([pr EXCEPT !.format = format, !.fpc = "fetch"],
                           ErrorsNew("unknown format"))
    /\ UNCHANGED otherThanProc

\* The fetch goroutine: fetchFile returns, and the goroutine goes to send
\* the payload or the error.
fetchGoroutine ==
    /\ pr.fpc = "fetch"
    /\ \E outcome \in FetchOutcomes :
         pr' = [pr EXCEPT !.fpc = "send",
                          !.absent = (outcome = "absent"),
                          !.ferr = IF outcome = "empty" THEN ErrorsNew("empty payload")
                                   ELSE IF outcome = "ok" THEN NoError
                                   ELSE Errorf(fetchFile(outcome))]
    /\ UNCHANGED otherThanProc

\* fetchAnnotations up to g.Wait: AnnotationStorage.FetchAnnotation, then one
\* goroutine per image annotation of the page.
fetchAnnotations ==
    /\ pr.pc = "annotations"
    /\ \E ok \in BOOLEAN, n \in 0..NumImages :
         pr' = IF ~ok THEN Return(pr, Errorf(Errorf(ErrorsNew("annotations unavailable"))))
               ELSE [pr EXCEPT !.pc = "wait",
                               !.img = [j \in Images |-> IF j <= n THEN "fetch" ELSE "none"]]
    /\ UNCHANGED otherThanProc

\* The goroutine of image j ends with err.
imageFails(p, j, err) ==
    [p EXCEPT !.img[j] = "failed",
              !.gerr = IF p.gerr = NoError THEN err ELSE p.gerr]

\* The goroutine of image j: fetchFile of the image.
imageFetch(j) ==
    /\ pr.img[j] = "fetch"
    /\ \E outcome \in FetchOutcomes \ {"empty"} :
         pr' = IF outcome = "ok" THEN [pr EXCEPT !.img[j] = "create"]
               ELSE imageFails(pr, j, Errorf(fetchFile(outcome)))
    /\ UNCHANGED otherThanProc

\* The goroutine of image j: os.CreateTemp, and the file's name is appended
\* to temporaryAnnotationFiles.
imageCreateTemp(j) ==
    /\ pr.img[j] = "create"
    /\ \E ok \in BOOLEAN :
         pr' = IF ok THEN [pr EXCEPT !.img[j] = "write", !.tmp = @ \cup {j},
                                     !.created = @ \cup {j},
                                     !.registered = @ \cup {j}]
               ELSE imageFails(pr, j, Errorf(ErrorsNew("no temporary file")))
    /\ UNCHANGED otherThanProc

\* The goroutine of image j: the payload is written to the file.
imageWrite(j) ==
    /\ pr.img[j] = "write"
    /\ \E ok \in BOOLEAN :
         pr' = IF ok THEN [pr EXCEPT !.img[j] = "done"]
               ELSE imageFails(pr, j, Errorf(ErrorsNew("temporary file not written")))
    /\ UNCHANGED otherThanProc

\* g.Wait returns once every goroutine of the group has ended; on an error
\* fetchAnnotations cleans up and Process returns the error, else Process
\* defers the cleanup.
groupWait ==
    /\ pr.pc = "wait"
    /\ \A j \in Images : pr.img[j] \in {"none", "done", "failed"}
    /\ pr' = IF pr.gerr # NoError
             THEN Return(cleanup(pr), Errorf(Errorf(pr.gerr)))
             ELSE [pr EXCEPT !.pc = "recv", !.armed = TRUE]
    /\ UNCHANGED otherThanProc

\* The select of Process meets the send of the fetch goroutine.
receive ==
    /\ pr.pc = "recv"
    /\ pr.fpc = "send"
    /\ pr' = IF pr.ferr # NoError THEN Return([pr EXCEPT !.fpc = "done"], pr.ferr)
             ELSE [pr EXCEPT !.fpc = "done", !.pc = "render"]
    /\ UNCHANGED otherThanProc

\* SaveToPNGWithAnnotations, lazypdf.SaveToPNG or lazypdf.SaveToHTML.
renderPage ==
    /\ pr.pc = "render"
    /\ \E ok \in BOOLEAN :
         pr' = IF ok THEN [pr EXCEPT !.pc = "copy"]
               ELSE Return(pr, Errorf(ErrorsNew("render failed")))
    /\ UNCHANGED otherThanProc

\* io.Copy to the output, and Process returns.
copyOutput ==
    /\ pr.pc = "copy"
    /\ \E ok \in BOOLEAN :
         pr' = Return(pr, IF ok THEN NoError ELSE Errorf(ErrorsNew("output not written")))
    /\ UNCHANGED otherThanProc

\* handler.document after Process: the context is looked at first, then the
\* error.
answer ==
    /\ pr.pc = "returned"
    /\ \E ctx \in {"live", "canceled", "deadline"} :
         pr' = [pr EXCEPT !.pc = "answered", !.ctx = ctx,
                          !.status = serviceStatus([ctx |-> ctx], errorClass(pr.ret))]
    /\ UNCHANGED otherThanProc

\* A removal goroutine: os.Remove, whose error is dropped.
osRemove(j) ==
    /\ pr.rm[j] = "started"
    /\ \E ok \in BOOLEAN :
         pr' = IF ok THEN [pr EXCEPT !.rm[j] = "removed", !.tmp = @ \ {j}]
               ELSE [pr EXCEPT !.rm[j] = "failed"]
    /\ UNCHANGED otherThanProc

(***************************************************************************)
(* The signal handler of the legacy server (handleSignals): the signal,    *)
(* the shutdown of the ring, the asynchronous purge of the file cache and   *)
(* the wait for it.  Time passes in ticks while the handler waits;          *)
(* FileCache.PurgeAsync is not part of the sources and is modelled from     *)
(* the specification: it returns at once and signals when the purge is done.*)
(***************************************************************************)
ShutdownTimeout == 4   \* the shutdown budget, in ticks
MaxCached == 3         \* files in the cache when the signal arrives: 0..MaxCached

otherThanShutdown == <<cacheVars, sigVars, reqVars, parVars, dlVars, wkVars, ciVars, prVars, wtVars, uvVars, oflVars, anVars, hdVars, hiVars, lsVars>>

NoShutdown ==
    [pc |-> "running",   \* handleSignals: "running", "shutdown", "purge", "select", "exited"
     signal |-> "",      \* the signal received
     purge |-> "none",   \* the purge goroutine: "none", "running", "stuck", "done"
     left |-> 0,         \* entries it has still to evict
     waitChan |-> 0,     \* values in waitChan
     elapsed |-> 0,      \* ticks since the select was entered
     doneAt |-> -1,      \* elapsed when the purge signalled, -1 when it has not
     via |-> "",         \* the case of the select that was taken
     code |-> -1]        \* the exit code, -1 while the process runs

\* The cases of the select that can proceed, the timer left out.
selectReady_NoTimer(s) ==
    IF s.waitChan > 0 THEN {"purge"} ELSE {}

\* The cases of the select that can proceed.
selectReady(s) ==
    (IF s.waitChan > 0 THEN {"purge"} ELSE {})
        \cup (IF s.elapsed >= ShutdownTimeout THEN {"timer"} ELSE {})

\* sig := <-sigChan
Signal ==
    /\ sh.pc = "running"
    /\ \E s \in {"SIGINT", "SIGTERM"}, n \in 0..MaxCached :
         sh' = [sh EXCEPT !.pc = "shutdown", !.signal = s, !.left = n]
    /\ UNCHANGED otherThanShutdown

\* ring.Shutdown()
ringShutdown ==
    /\ sh.pc = "shutdown"
    /\ sh' = [sh EXCEPT !.pc = "purge"]
    /\ UNCHANGED otherThanShutdown

\* fCache.PurgeAsync(waitChan) returns at once; the select is entered and the
\* timer started.
PurgeAsync ==
    /\ sh.pc = "purge"
    /\ sh' = [sh EXCEPT !.pc = "select", !.purge = "running"]
    /\ UNCHANGED otherThanShutdown

\* The purge evicts one entry.
purgeEvict ==
    /\ sh.pc # "exited" /\ sh.purge = "running" /\ sh.left > 0
    /\ sh' = [sh EXCEPT !.left = @ - 1]
    /\ UNCHANGED otherThanShutdown

\* The purge gets stuck on an entry and never completes.
purgeStuck ==
    /\ sh.pc # "exited" /\ sh.purge = "running" /\ sh.left > 0
    /\ sh' = [sh EXCEPT !.purge = "stuck"]
    /\ UNCHANGED otherThanShutdown

\* The purge is done and signals it.
purgeDone ==
    /\ sh.pc # "exited" /\ sh.purge = "running" /\ sh.left = 0
    /\ sh' = [sh EXCEPT !.purge = "done", !.waitChan = 1, !.doneAt = sh.elapsed]
    /\ UNCHANGED otherThanShutdown

\* A tick passes while the handler waits in the select: no case can proceed.
ShutdownTick ==
    /\ sh.pc = "select"
    /\ selectReady(sh) = {}
    /\ sh.elapsed <= ShutdownTimeout
    /\ sh' = [sh EXCEPT !.elapsed = @ + 1]
    /\ UNCHANGED otherThanShutdown

\* A case of the select proceeds, and os.Exit(130).
Exit ==
    /\ sh.pc = "select"
    /\ \E c \in selectReady(sh) :
         sh' = [sh EXCEPT !.pc = "exited", !.via = c, !.code = 130]
    /\ UNCHANGED otherThanShutdown

(***************************************************************************)
(* The entry point of the rewritten service (cmd/main.go): main with the   *)
(* handlers made by wait, and the goroutine Server.Start runs              *)
(* ListenAndServe in.                                                      *)
(***************************************************************************)
MaxInterrupts == 3     \* interrupt signals sent to the process

SignalChanSize == 2

otherThanWait ==
    <<cacheVars, sigVars, reqVars, parVars, dlVars, wkVars, ciVars, prVars, shVars, uvVars, oflVars, anVars, hdVars, hiVars, lsVars>>

NoWait ==
    [pc |-> "start",      \* main: "start", "notify", "receive", "return", "stop", "exited"
     server |-> "none",   \* the server goroutine: "none", "listen", "send", "add", "done"
     notified |-> FALSE,  \* signal.Notify was called
     signalChan |-> 0,    \* values in signalChan
     exitStatus |-> 0,
     interrupts |-> 0,    \* interrupt signals sent so far
     ret |-> 0,           \* what the wait handler returned
     code |-> -1]         \* the exit code, -1 while the process runs

\* client.Start(): Server.Start starts the goroutine of ListenAndServe.
clientStart ==
    /\ wt.pc = "start"
    /\ wt' = [wt EXCEPT !.pc = "notify", !.server = "listen"]
    /\ UNCHANGED otherThanWait

\* ListenAndServe returns an error other than ErrServerClosed: the goroutine
\* invokes AsyncErrorHandler.
listenFails ==
    /\ wt.pc # "exited" /\ wt.server = "listen"
    /\ wt' = [wt EXCEPT !.server = "send"]
    /\ UNCHANGED otherThanWait

\* asyncError: signalChan <- os.Interrupt
asyncErrorSend ==
    /\ wt.pc # "exited" /\ wt.server = "send"
    /\ wt.signalChan < SignalChanSize
    /\ wt' = [wt EXCEPT !.server = "add", !.signalChan = @ + 1]
    /\ UNCHANGED otherThanWait

\* asyncError: atomic.AddInt32(&exitStatus, 1)
asyncErrorAdd ==
    /\ wt.pc # "exited" /\ wt.server = "add"
    /\ wt' = [wt EXCEPT !.server = "done", !.exitStatus = @ + 1]
    /\ UNCHANGED otherThanWait

\* handler: signal.Notify(signalChan, os.Interrupt)
signalNotify ==
    /\ wt.pc = "notify"
    /\ wt' = [wt EXCEPT !.pc = "receive", !.notified = TRUE]
    /\ UNCHANGED otherThanWait

\* An interrupt signal reaches the process: package signal sends it to
\* signalChan without blocking and drops it when the channel is full.
Interrupt ==
    /\ wt.pc # "exited" /\ wt.notified
    /\ wt.interrupts < MaxInterrupts
    /\ wt' = [wt EXCEPT !.interrupts = @ + 1,
                        !.signalChan = IF @ < SignalChanSize THEN @ + 1 ELSE @]
    /\ UNCHANGED otherThanWait

\* handler: <-signalChan
handlerReceive ==
    /\ wt.pc = "receive"
    /\ wt.signalChan > 0
    /\ wt' = [wt EXCEPT !.pc = "return", !.signalChan = @ - 1]
    /\ UNCHANGED otherThanWait

\* handler: return (int)(exitStatus)
handlerReturn ==
    /\ wt.pc = "return"
    /\ wt' = [wt EXCEPT !.pc = "stop", !.ret = wt.exitStatus]
    /\ UNCHANGED otherThanWait

\* main: client.Stop(ctx), then os.Exit(exitStatus), or logger.Fatal when the
\* stop failed.
clientStop ==
    /\ wt.pc = "stop"
    /\ \E ok \in BOOLEAN :
         wt' = [wt EXCEPT !.pc = "exited", !.code = IF ok THEN wt.ret ELSE 1]
    /\ UNCHANGED otherThanWait

(***************************************************************************)
(* handler.urlToVerify: the raw query of a request is a sequence of        *)
(* key=value pairs; the URL handed to the verification is the path and the *)
(* query re-encoded from the parameters that were kept.                    *)
(***************************************************************************)
MaxParams == 3         \* pairs in the query of a request: 0..MaxParams

otherThanURL ==
    <<cacheVars, sigVars, reqVars, parVars, dlVars, wkVars, ciVars, prVars, shVars, wtVars, oflVars, anVars, hdVars, hiVars, lsVars>>

\* The keys of the model in the order url.Values.Encode sorts them.
SortedKeys == <<"page", "token", "token-ttl", "width">>
QueryKeys == {SortedKeys[i] : i \in 1..Len(SortedKeys)}
KeptKeys == {"page", "token", "token-ttl"}

\* Raw values: "+" and "%20" are both a space, "%zz" is not a valid escape.
RawValues == {"1", "+", "%20", "%zz"}
RawPairs == [k : QueryKeys, v : RawValues]
RawQueries == UNION {[1..n -> RawPairs] : n \in 0..MaxParams}

\* url.QueryUnescape, "invalid" for the error.
QueryUnescape(v) ==
    CASE v = "+" -> " "
      [] v = "%20" -> " "
      [] v = "%zz" -> "invalid"
      [] OTHER -> v

\* url.QueryEscape
QueryEscape(d) == IF d = " " THEN "+" ELSE d

\* url.ParseQuery as URL.Query uses it, for one key: the decoded values of
\* the key's pairs in their order; a pair that does not decode is skipped.
RECURSIVE ValuesOf(_, _)
ValuesOf(raw, k) ==
    IF raw = <<>> THEN <<>>
    ELSE IF Head(raw).k = k /\ QueryUnescape(Head(raw).v) # "invalid"
         THEN <<QueryUnescape(Head(raw).v)>> \o ValuesOf(Tail(raw), k)
         ELSE ValuesOf(Tail(raw), k)

\* URL.Query(): key -> values.
Query(raw) == [k \in QueryKeys |-> ValuesOf(raw, k)]

\* url.Values.Encode: the keys that have values in sorted order, each with
\* its values escaped.
RECURSIVE EncodeFrom(_, _)
EncodeFrom(q, i) ==
    IF i > Len(SortedKeys) THEN <<>>
    ELSE [j \in 1..Len(q[SortedKeys[i]]) |->
            [k |-> SortedKeys[i], v |-> QueryEscape(q[SortedKeys[i]][j])]]
         \o EncodeFrom(q, i + 1)

Encode(q) == EncodeFrom(q, 1)

\* urlToVerify with no key deleted.
urlToVerify_KeepAll(path, raw) ==
    [path |-> path, query |-> Encode(Query(raw))]

\* handler.urlToVerify: every key but page, token and token-ttl is deleted
\* from the parsed query, and the URL is the path with the query encoded
\* again.
urlToVerify(path, raw) ==
    [path |-> path,
     query |-> Encode([k \in QueryKeys |-> IF k \in KeptKeys THEN Query(raw)[k] ELSE <<>>])]

NoURL ==
    [started |-> FALSE,
     path |-> "/documents/a.pdf",
     query |-> <<>>,          \* the raw query of the request
     url |-> [path |-> "", query |-> <<>>],     \* urlToVerify of it
     first |-> [path |-> "", query |-> <<>>],   \* urlToVerify of the first request
     edit |-> ""]             \* how the request differs from the one before it

\* The request with query raw is handled.
Verified(raw, edit) ==
    /\ uv' = [uv EXCEPT !.started = TRUE, !.query = raw,
                        !.url = urlToVerify(uv.path, raw),
                        !.first = IF uv.started THEN uv.first
                                  ELSE urlToVerify(uv.path, raw),
                        !.edit = edit]
    /\ UNCHANGED otherThanURL

\* A first request, with any query.
FirstRequest ==
    /\ ~uv.started
    /\ \E raw \in RawQueries : Verified(raw, "")

\* The request again with one more parameter other than page, token and
\* token-ttl.
AddOther ==
    /\ uv.started /\ Len(uv.query) < MaxParams
    /\ \E i \in 0..Len(uv.query), p \in RawPairs :
         /\ p.k \notin KeptKeys
         /\ Verified(SubSeq(uv.query, 1, i) \o <<p>> \o SubSeq(uv.query, i + 1, Len(uv.query)),
                     "add")

\* The request again without one of its other parameters.
RemoveOther ==
    /\ uv.started
    /\ \E i \in 1..Len(uv.query) :
         /\ uv.query[i].k \notin KeptKeys
         /\ Verified(SubSeq(uv.query, 1, i - 1) \o SubSeq(uv.query, i + 1, Len(uv.query)),
                     "remove")

\* The request again with another value for one of its other parameters.
ChangeOther ==
    /\ uv.started
    /\ \E i \in 1..Len(uv.query), v \in RawValues :
         /\ uv.query[i].k \notin KeptKeys
         /\ v # uv.query[i].v
         /\ Verified([uv.query EXCEPT ![i].v = v], "change")

(***************************************************************************)
(* handleDocument under the offline mark (http.go): concurrent document    *)
(* requests, each with the offline check and then the fetch, while the     *)
(* ring manager's Ping changes its answer.                                 *)
(***************************************************************************)
MaxPings == 2          \* changes of the answer of Manager().Ping()

otherThanOffline ==
    <<cacheVars, sigVars, reqVars, parVars, dlVars, wkVars, ciVars, prVars, shVars, wtVars,
      uvVars, anVars, hdVars, hiVars, lsVars>>

NoOffline ==
    [cache |-> <<>>,        \* the file cache's LRU
     offline |-> FALSE,     \* Manager().Ping() answers false
     pings |-> 0,
     n |-> 0,               \* requests so far
     r |-> [p \in Procs |->
              [pc |-> "idle", key |-> 1,
               timestamp |-> 0,        \* newerThan, 0 when absent
               offAtCheck |-> FALSE,   \* the node was offline at the request's check
               downloaded |-> FALSE,   \* the request's fetch called the download
               status |-> 0]]]

\* The node is marked offline, or online again.
ManagerPing ==
    /\ ofl.pings < MaxPings
    /\ ofl' = [ofl EXCEPT !.pings = @ + 1, !.offline = ~@]
    /\ UNCHANGED otherThanOffline

\* A document request arrives: the signature and the parameters are fine.
processDocumentParams(p) ==
    /\ ofl.r[p].pc = "idle"
    /\ ofl.n < MaxRequests
    /\ \E k \in Keys, t \in 0..1 :
         ofl' = [ofl EXCEPT !.n = @ + 1,
                            !.r[p] = [pc |-> "check", key |-> k, timestamp |-> t,
                                      offAtCheck |-> FALSE, downloaded |-> FALSE,
                                      status |-> 0]]
    /\ UNCHANGED otherThanOffline

\* !h.ring.Manager().Ping() && !h.cache.Contains(docParams.DownloadRecord):
\* 503 when the node is offline and the document is not cached.
offlineCheck(p) ==
    /\ ofl.r[p].pc = "check"
    /\ ofl' = IF ofl.offline /\ ~LruContains(ofl.cache, ofl.r[p].key)
              THEN [ofl EXCEPT !.r[p].pc = "idle", !.r[p].status = 503,
                               !.r[p].offAtCheck = TRUE]
              ELSE [ofl EXCEPT !.r[p].pc = "fetch", !.r[p].offAtCheck = ofl.offline]
    /\ UNCHANGED otherThanOffline

\* FetchNewerThan when the request has a newerThan, Fetch otherwise; 404 when
\* it fails.  Every file has the modification time 1.
cacheFetch(p) ==
    /\ ofl.r[p].pc = "fetch"
    /\ \E dlOk \in BOOLEAN :
         LET q == ofl.r[p]
             f == IF 0 < q.timestamp
                  THEN FetchNewerThan(ofl.cache, q.key, q.timestamp, "", 1, dlOk)
                  ELSE FetchSeq(ofl.cache, q.key, "", 1, dlOk)
         IN  ofl' = [ofl EXCEPT !.cache = f[1],
                                !.r[p].pc = "idle",
                                !.r[p].downloaded = f[2],
                                !.r[p].status = IF f[3] THEN 200 ELSE 404]
    /\ UNCHANGED otherThanOffline

(***************************************************************************)
(* Worker.fetchAnnotations, the loop and its goroutines: the loop appends  *)
(* the annotations of the page to the slice `annotations` and starts a     *)
(* goroutine for each image annotation; the goroutine assigns              *)
(* annotations[imgIdx] when its temporary file is written.  The goroutine  *)
(* reads the variable `annotations` without synchronisation, while the     *)
(* loop may still assign it: a data race, whose outcomes are the orders of *)
(* the goroutine's read of the slice, its assignment of the element and    *)
(* the loop's append.  A slice is the array it points to; append makes a   *)
(* new array and copies when the capacity is used up.                      *)
(***************************************************************************)
MaxAnnotations == 3    \* annotations the storage returns: 0..MaxAnnotations

otherThanAnnotations ==
    <<cacheVars, sigVars, reqVars, parVars, dlVars, wkVars, ciVars, prVars, shVars, wtVars,
      uvVars, oflVars, hdVars, hiVars, lsVars>>

AnnotationIds == 1..MaxAnnotations

\* An annotation of the storage: its kind (a checkbox is handled as a text
\* is) and whether it is on the requested page.
OriginalAnnotation == [kind : {"text", "image"}, onPage : BOOLEAN]
OriginalAnnotations == UNION {[1..n -> OriginalAnnotation] : n \in 0..MaxAnnotations}

NoAnnotations ==
    [pc |-> "idle",          \* "idle", "loop", "wait", "returned"
     original |-> <<>>,      \* originalAnnotations
     i |-> 1,                \* the loop's position
     arrays |-> <<>>,        \* the arrays made so far, each the sequence of its elements
     cur |-> 0,              \* the array `annotations` points to (0: the empty slice)
     cap |-> 0,              \* cap(annotations)
     g |-> [j \in AnnotationIds |-> [pc |-> "none", imgIdx |-> 0, arr |-> 0]],
     err |-> FALSE,          \* fetchAnnotations returned an error
     result |-> <<>>]        \* the annotations it returned

\* The capacity append gives the new array of a full slice that grows by one
\* element.
growslice(cap) == IF cap = 0 THEN 1 ELSE 2 * cap

\* len(annotations)
LenAnnotations(a) == IF a.cur = 0 THEN 0 ELSE Len(a.arrays[a.cur])

\* annotations = append(annotations, v)
append(a, v) ==
    IF LenAnnotations(a) < a.cap
    THEN [a EXCEPT !.arrays[a.cur] = Append(@, v)]
    ELSE [a EXCEPT !.arrays = Append(@, (IF a.cur = 0 THEN <<>> ELSE a.arrays[a.cur]) \o <<v>>),
                   !.cur = Len(a.arrays) + 1,
                   !.cap = growslice(a.cap)]

\* fetchAnnotations is called: AnnotationStorage.FetchAnnotation answers.
FetchAnnotation ==
    /\ an.pc = "idle"
    /\ \/ an' = [an EXCEPT !.pc = "returned", !.err = TRUE]
       \/ \E original \in OriginalAnnotations :
            an' = [an EXCEPT !.pc = IF original = <<>> THEN "wait" ELSE "loop",
                             !.original = original]
    /\ UNCHANGED otherThanAnnotations

\* One turn of the loop over originalAnnotations.
annotationsLoop ==
    /\ an.pc = "loop"
    /\ LET v == an.original[an.i]
           a == [an EXCEPT !.i = @ + 1,
                           !.pc = IF an.i = Len(an.original) THEN "wait" ELSE "loop"]
       IN  an' = IF ~v.onPage THEN a
                 ELSE IF v.kind = "image"
                      THEN [append(a, [id |-> an.i, kind |-> v.kind, location |-> "remote"])
                               EXCEPT !.g[an.i] = [pc |-> "run", imgIdx |-> LenAnnotations(an),
                                                   arr |-> 0]]
                 ELSE append(a, [id |-> an.i, kind |-> v.kind, location |-> "remote"])
    /\ UNCHANGED otherThanAnnotations

\* The goroutine of an image: fetchFile, os.CreateTemp and tmpFile.Write; an
\* error ends it.
imageGoroutine(j) ==
    /\ an.g[j].pc = "run"
    /\ \E ok \in BOOLEAN :
         an' = [an EXCEPT !.g[j].pc = IF ok THEN "read" ELSE "failed"]
    /\ UNCHANGED otherThanAnnotations

\* annotations[imgIdx] = v, first half: the goroutine reads the slice.
imageReadSlice(j) ==
    /\ an.g[j].pc = "read"
    /\ an' = [an EXCEPT !.g[j].pc = "assign", !.g[j].arr = an.cur]
    /\ UNCHANGED otherThanAnnotations

\* annotations[imgIdx] = v, second half: the element of the array that was
\* read is assigned the annotation with the path of the temporary file.
imageAssign(j) ==
    /\ an.g[j].pc = "assign"
    /\ an' = [an EXCEPT !.g[j].pc = "done",
                        !.arrays[an.g[j].arr][an.g[j].imgIdx + 1].location = "tmp"]
    /\ UNCHANGED otherThanAnnotations

\* g.Wait() returns when the loop is over and every goroutine has ended:
\* the error of a goroutine, or the annotations.
annotationsWait ==
    /\ an.pc = "wait"
    /\ \A j \in AnnotationIds : an.g[j].pc \in {"none", "done", "failed"}
    /\ an' = IF \E j \in AnnotationIds : an.g[j].pc = "failed"
             THEN [an EXCEPT !.pc = "returned", !.err = TRUE]
             ELSE [an EXCEPT !.pc = "returned",
                             !.result = IF an.cur = 0 THEN <<>> ELSE an.arrays[an.cur]]
    /\ UNCHANGED otherThanAnnotations

(***************************************************************************)
(* RasterHttpServer.handleDocument and its disconnect watcher: each        *)
(* request runs the handler; past the early checks the handler makes       *)
(* handlerDone, defers its close and, when the ResponseWriter is a         *)
(* CloseNotifier, starts the goroutine that waits for the close            *)
(* notification or for handlerDone.                                        *)
(***************************************************************************)
MaxWatched == 2        \* document requests handled concurrently

otherThanHandlers ==
    <<cacheVars, sigVars, reqVars, parVars, dlVars, wkVars, ciVars, prVars, shVars, wtVars,
      uvVars, oflVars, anVars, hiVars, lsVars>>

Watched == 1..MaxWatched

NoHandlers ==
    [r \in Watched |->
       [pc |-> "idle",           \* "idle", "checks", "fetch", "raster", "closed", "serve", "returned"
        deferred |-> FALSE,      \* the close of handlerDone is deferred
        handlerDone |-> FALSE,   \* handlerDone is closed
        notified |-> FALSE,      \* the close notification has fired
        watcher |-> "none",      \* the goroutine: "none", "waiting", "ended"
        socketClosed |-> FALSE]]

\* The handler returns without closing handlerDone.
handlerReturns_NoClose(h) == [h EXCEPT !.pc = "returned"]

\* The handler returns: its deferred calls run, close(handlerDone) among them
\* when it was deferred.
handlerReturns(h) ==
    [h EXCEPT !.pc = "returned", !.handlerDone = h.deferred]

\* A document request arrives.
handleDocumentCall(r) ==
    /\ hd[r].pc = "idle"
    /\ hd' = [hd EXCEPT ![r].pc = "checks"]
    /\ UNCHANGED otherThanHandlers

\* isValidSignature, processDocumentParams and the offline check: each
\* returns on a failure; past them handlerDone is made, its close is deferred
\* and the goroutine is started when w is a CloseNotifier.
earlyChecks(r) ==
    /\ hd[r].pc = "checks"
    /\ \E ok \in BOOLEAN, closeNotifier \in BOOLEAN :
         hd' = [hd EXCEPT ![r] = IF ~ok THEN handlerReturns(@)
                                 ELSE [@ EXCEPT !.pc = "fetch", !.deferred = TRUE,
                                                !.watcher = IF closeNotifier THEN "waiting"
                                                            ELSE "none"]]
    /\ UNCHANGED otherThanHandlers

\* h.cache.Fetch or FetchNewerThan: 404 and return when it fails.
documentFetch(r) ==
    /\ hd[r].pc = "fetch"
    /\ \E ok \in BOOLEAN :
         hd' = [hd EXCEPT ![r] = IF ok THEN [@ EXCEPT !.pc = "raster"] ELSE handlerReturns(@)]
    /\ UNCHANGED otherThanHandlers

\* h.rasterCache.GetRasterizer: 500 and return when it fails.
documentRasterizer(r) ==
    /\ hd[r].pc = "raster"
    /\ \E ok \in BOOLEAN :
         hd' = [hd EXCEPT ![r] = IF ok THEN [@ EXCEPT !.pc = "closed"] ELSE handlerReturns(@)]
    /\ UNCHANGED otherThanHandlers

\* if socketClosed { return }: the read races with the goroutine's write and
\* sees it or not.
socketClosedCheck(r) ==
    /\ hd[r].pc = "closed"
    /\ \E seen \in (IF hd[r].socketClosed THEN BOOLEAN ELSE {FALSE}) :
         hd' = [hd EXCEPT ![r] = IF seen THEN handlerReturns(@) ELSE [@ EXCEPT !.pc = "serve"]]
    /\ UNCHANGED otherThanHandlers

\* handleDocumentInfo or handleImage, and the handler returns.
documentServe(r) ==
    /\ hd[r].pc = "serve"
    /\ hd' = [hd EXCEPT ![r] = handlerReturns(@)]
    /\ UNCHANGED otherThanHandlers

\* The client goes away and the close notification fires.
closeNotify(r) ==
    /\ hd[r].pc \notin {"idle", "returned"}
    /\ ~hd[r].notified
    /\ hd' = [hd EXCEPT ![r].notified = TRUE]
    /\ UNCHANGED otherThanHandlers

\* The goroutine's select takes <-notifyChan.
watcherNotified(r) ==
    /\ hd[r].watcher = "waiting"
    /\ hd[r].notified
    /\ hd' = [hd EXCEPT ![r].watcher = "ended", ![r].socketClosed = TRUE]
    /\ UNCHANGED otherThanHandlers

\* The goroutine's select takes <-handlerDone.
watcherHandlerDone(r) ==
    /\ hd[r].watcher = "waiting"
    /\ hd[r].handlerDone
    /\ hd' = [hd EXCEPT ![r].watcher = "ended"]
    /\ UNCHANGED otherThanHandlers

(***************************************************************************)
(* handleImage step by step, in its first revision (part_015: parameters,  *)
(* fetch, rasterizer, render, encode) and as the method of                 *)
(* RasterHttpServer (http.go: parameters, render, write), with what the    *)
(* handler did for the request, in order: "fetch", "raster", "render",     *)
(* "body" (bytes of the page written, with the implicit status 200) and    *)
(* the status of each http.Error or http.NotFound.                         *)
(***************************************************************************)
MaxImageRequests == 3  \* requests handled one after another

otherThanImage ==
    <<cacheVars, sigVars, reqVars, parVars, dlVars, wkVars, ciVars, prVars, shVars, wtVars,
      uvVars, oflVars, anVars, hdVars, lsVars>>

ErrorStatuses == {"400", "404", "500", "503"}

NoImage ==
    [pc |-> "idle",         \* "idle", "params", "fetch", "raster", "render", "write"
     n |-> 0,               \* requests so far
     revision |-> "first",  \* "first": part_015, "server": http.go
     pageOk |-> TRUE, widthOk |-> TRUE,
     did |-> <<>>]          \* what the handler did for the request

\* The handler does something and goes on, or returns.
Did(h, what, next) == [h EXCEPT !.did = @ \o what, !.pc = next]

\* A page request arrives.
handleImageCall ==
    /\ hi.pc = "idle"
    /\ hi.n < MaxImageRequests
    /\ \E revision \in {"first", "server"}, pageOk \in BOOLEAN, widthOk \in BOOLEAN :
         hi' = [pc |-> "params", n |-> hi.n + 1, revision |-> revision,
                pageOk |-> pageOk, widthOk |-> widthOk, did |-> <<>>]
    /\ UNCHANGED otherThanImage

\* The parameters.  The first revision answers 400 to a bad page and
\* returns, and answers 400 to a bad width and goes on; processImageParams
\* of the server's handleImage ends in a return for both.
handleImageParams ==
    /\ hi.pc = "params"
    /\ hi' = IF ~hi.pageOk THEN Did(hi, <<"400">>, "idle")
             ELSE IF ~hi.widthOk
                  THEN Did(hi, <<"400">>, IF hi.revision = "first" THEN "fetch" ELSE "idle")
             ELSE Did(hi, <<>>, IF hi.revision = "first" THEN "fetch" ELSE "render")
    /\ UNCHANGED otherThanImage

\* cache.Fetch(filename): 404 when it fails.
handleImageFetch ==
    /\ hi.pc = "fetch"
    /\ \E ok \in BOOLEAN :
         hi' = IF ok THEN Did(hi, <<"fetch">>, "raster") ELSE Did(hi, <<"fetch", "404">>, "idle")
    /\ UNCHANGED otherThanImage

\* rasterCache.GetRasterizer(storagePath): 500 when it fails.
handleImageRasterizer ==
    /\ hi.pc = "raster"
    /\ \E ok \in BOOLEAN :
         hi' = IF ok THEN Did(hi, <<"raster">>, "render") ELSE Did(hi, <<"raster", "500">>, "idle")
    /\ UNCHANGED otherThanImage

\* raster.GeneratePage and its kin: 404 for a page the document has not, 503
\* for a timeout (the server's handleImage only), 500 for another error; the
\* server's handleImage returns when the socket was closed.
handleImageRender ==
    /\ hi.pc = "render"
    /\ \E outcome \in {"ok", "badpage", "timeout", "error", "closed"} :
         /\ outcome \in {"timeout", "closed"} => hi.revision = "server"
         /\ hi' = CASE outcome = "ok" -> Did(hi, <<"render">>, "write")
                    [] outcome = "badpage" -> Did(hi, <<"render", "404">>, "idle")
                    [] outcome = "timeout" -> Did(hi, <<"render", "503">>, "idle")
                    [] outcome = "error" -> Did(hi, <<"render", "500">>, "idle")
                    [] OTHER -> Did(hi, <<"render">>, "idle")
    /\ UNCHANGED otherThanImage

\* The page is encoded into the response.  The first revision drops the
\* encoder's error; the server's handleImage answers 500 to an error that is
\* no broken pipe, whether or not bytes were written before it.
handleImageWrite ==
    /\ hi.pc = "write"
    /\ \E outcome \in {"ok", "broken pipe", "failed", "failed midway"} :
         hi' = IF hi.revision = "first"
               THEN Did(hi, IF outcome = "failed" THEN <<>> ELSE <<"body">>, "idle")
               ELSE CASE outcome = "ok" -> Did(hi, <<"body">>, "idle")
                      [] outcome = "broken pipe" -> Did(hi, <<>>, "idle")
                      [] outcome = "failed" -> Did(hi, <<"500">>, "idle")
                      [] OTHER -> Did(hi, <<"body", "500">>, "idle")
    /\ UNCHANGED otherThanImage

(***************************************************************************)
(* handleListFilecache (http.go): the listing of the file cache, beside    *)
(* document requests that fill the file cache and the rasterizer cache.    *)
(* The requests are handled one after another.                             *)
(***************************************************************************)
ListCacheSize == 2     \* capacity of either cache
MaxListRequests == 8   \* requests handled in one behaviour

otherThanListing ==
    <<cacheVars, sigVars, reqVars, parVars, dlVars, wkVars, ciVars, prVars, shVars, wtVars,
      uvVars, oflVars, anVars, hdVars, hiVars>>

NoListing ==
    [cache |-> <<>>,          \* h.cache.Cache, least recently used first
     rasterizers |-> <<>>,    \* h.rasterCache.rasterizers, least recently used first
     n |-> 0,                 \* requests so far
     listed |-> FALSE,        \* the last request was a listing that was served
     before |-> [cache |-> <<>>, rasterizers |-> <<>>],   \* the caches before it
     payload |-> <<>>]        \* what it listed

\* The loop over h.cache.Cache.Keys(): Cache.Get(key) and, for a key that is
\* there, rasterizers.Get(storagePath); Get makes an entry the most recently
\* used one.  The result is the two caches after the loop.
RECURSIVE ListEntries(_, _, _)
ListEntries(c, rs, keys) ==
    IF keys = <<>> THEN <<c, rs>>
    ELSE IF LruContains(c, Head(keys))
         THEN ListEntries(LruGet(c, Head(keys)), LruGet(rs, LruEntry(c, Head(keys)).value),
                          Tail(keys))
    ELSE ListEntries(c, rs, Tail(keys))

(***************************************************************************)
(* FileCache                                                               *)
(***************************************************************************)
\* GetFileName: the storage path of a filename under BaseDir.  The filenames of
\* the model are clean relative paths, for which filepath.Join is one-to-one.
GetFileName(filename) == <<"BaseDir", filename>>

Paths == {GetFileName(k) : k \in Keys}

\* Contains: c.Cache.Contains(filename), which does not touch the recency.
Contains(filename) == LruContains(Cache, filename)

\* The Fetch calls in progress: entered and not yet returned.
InFetch(p) == pc[p] \in {"lock", "wait", "download", "add", "close"}

\* The Fetch calls in progress for the key of p, p's own excluded.
Peers(p, k) == {q \in Procs \ {p} : InFetch(q) /\ fkey[q] = k}

\* The direct GetRasterizer calls in progress.
InGetRasterizer(p) == pc[p] \in {"rlock", "rrun"}

\* The state after construction: New/NewS3Cache and NewRasterCache, with the
\* given files on disk.
InitWith(disk) ==
    /\ Cache = <<>>
    /\ Waiting = [k \in Keys |-> 0]
    /\ closed = {}
    /\ nextChan = 1
    /\ files = disk
    /\ orphans = {}
    /\ pc = [p \in Procs |-> "idle"]
    /\ fkey = [p \in Procs |-> 1]
    /\ fchan = [p \in Procs |-> 0]
    /\ fraster = [p \in Procs |-> 0]
    /\ nRequests = 0
    /\ fDownloaded = [p \in Procs |-> FALSE]
    /\ fPeerDl = [p \in Procs |-> FALSE]
    /\ fEvicted = [p \in Procs |-> FALSE]
    /\ fPeerEvicted = [p \in Procs |-> FALSE]
    /\ fServed = {}
    /\ fRepeat = [p \in Procs |-> "no"]
    /\ rasterizers = <<>>
    /\ rasterLock = 0
    /\ handles = <<>>
    /\ rConstructed = [p \in Procs |-> FALSE]
    /\ rOverlap = [p \in Procs |-> {}]
    /\ rDisturbed = [p \in Procs |-> FALSE]
    /\ sig = NoSig
    /\ req = NoReq
    /\ resp = 0
    /\ io = {}
    /\ par = NoParams
    /\ drec = NoDownloads
    /\ wk = NoWork
    /\ ci = NoCalls
    /\ pr = NoProc
    /\ ls = NoListing
    /\ hi = NoImage
    /\ hd = NoHandlers
    /\ an = NoAnnotations
    /\ ofl = NoOffline
    /\ uv = NoURL
    /\ wt = NoWait
    /\ sh = NoShutdown

\* The history of a call that process p starts now and that overlaps the calls
\* of the processes in `others`.
StartOverlap(old, p, others) ==
    [q \in Procs |-> IF q = p THEN others
                     ELSE IF q \in others THEN old[q] \cup {p} ELSE old[q] \ {p}]

\* Fetch returns in this step: the history of p's call is dropped.
FetchReturns(p, dl, pdl, ev, pev) ==
    /\ fDownloaded' = [dl EXCEPT ![p] = FALSE]
    /\ fPeerDl' = [pdl EXCEPT ![p] = FALSE]
    /\ fEvicted' = [ev EXCEPT ![p] = FALSE]
    /\ fPeerEvicted' = [pev EXCEPT ![p] = FALSE]

(***************************************************************************)
(* handleImage: the request handler, from its call of Fetch on.            *)
(***************************************************************************)
\* A request for a file arrives and handleImage calls cache.Fetch(filename),
\* which returns true at once when the cache contains the file.
Arrival(k) ==
    IF k \notin fServed THEN "no" ELSE IF Contains(k) THEN "hit" ELSE "miss"

\* handleImage over a Fetch without the Contains shortcut: every request takes
\* the download path, whether or not the key's entry is in the LRU.
HandleImage_NoContains(p) ==
    /\ pc[p] = "idle"
    /\ nRequests < MaxRequests
    /\ nRequests' = nRequests + 1
    /\ \E k \in Keys :
         /\ fkey' = [fkey EXCEPT ![p] = k]
         /\ fRepeat' = [fRepeat EXCEPT ![p] = Arrival(k)]
         /\ pc' = [pc EXCEPT ![p] = "lock"]
         /\ fPeerDl' = [fPeerDl EXCEPT ![p] = \E q \in Peers(p, k) : fDownloaded[q]]
         /\ fPeerEvicted' = [fPeerEvicted EXCEPT ![p] = \E q \in Peers(p, k) : fEvicted[q]]
         /\ UNCHANGED <<fDownloaded, fEvicted>>
    /\ UNCHANGED <<Cache, Waiting, closed, nextChan, files, orphans, fchan, fraster, rcVars>>
    /\ UNCHANGED <<fServed, docVars>>

HandleImage(p) ==
    /\ pc[p] = "idle"
    /\ nRequests < MaxRequests
    /\ nRequests' = nRequests + 1
    /\ \E k \in Keys :
         /\ fkey' = [fkey EXCEPT ![p] = k]
         /\ fRepeat' = [fRepeat EXCEPT ![p] = Arrival(k)]
         /\ IF Contains(k)
            THEN /\ pc' = [pc EXCEPT ![p] = "raster"]
                 /\ UNCHANGED <<fDownloaded, fPeerDl, fEvicted, fPeerEvicted>>
            ELSE /\ pc' = [pc EXCEPT ![p] = "lock"]
                 /\ fPeerDl' = [fPeerDl EXCEPT ![p] = \E q \in Peers(p, k) : fDownloaded[q]]
                 /\ fPeerEvicted' = [fPeerEvicted EXCEPT ![p] = \E q \in Peers(p, k) : fEvicted[q]]
                 /\ UNCHANGED <<fDownloaded, fEvicted>>
    /\ UNCHANGED <<Cache, Waiting, closed, nextChan, files, orphans, fchan, fraster, rcVars>>
    /\ UNCHANGED <<fServed, docVars>>

\* MaybeDownload as it would be without the look-up of c.Waiting: every call
\* that misses the cache makes a channel and downloads.
MaybeDownloadLock_NoSlot(p) ==
    /\ pc[p] = "lock"
    /\ IF Contains(fkey[p])
       THEN /\ pc' = [pc EXCEPT ![p] = "raster"]
            /\ FetchReturns(p, fDownloaded, fPeerDl, fEvicted, fPeerEvicted)
            /\ UNCHANGED <<Waiting, nextChan, fchan>>
       ELSE /\ Waiting' = [Waiting EXCEPT ![fkey[p]] = nextChan]
            /\ nextChan' = nextChan + 1
            /\ fDownloaded' = [fDownloaded EXCEPT ![p] = TRUE]
            /\ fPeerDl' = [q \in Procs |-> fPeerDl[q] \/ q \in Peers(p, fkey[p])]
            /\ pc' = [pc EXCEPT ![p] = "download"]
            /\ UNCHANGED <<fchan, fEvicted, fPeerEvicted>>
    /\ UNCHANGED <<Cache, closed, files, orphans, fkey, fraster, nRequests, rcVars>>
    /\ UNCHANGED otherVars

\* MaybeDownload under WaitLock: wait for the download in flight, or return when
\* the file has arrived, or make the channel and start the download.
MaybeDownloadLock(p) ==
    /\ pc[p] = "lock"
    /\ IF Waiting[fkey[p]] # 0
       THEN /\ fchan' = [fchan EXCEPT ![p] = Waiting[fkey[p]]]
            /\ pc' = [pc EXCEPT ![p] = "wait"]
            /\ UNCHANGED <<Waiting, nextChan, fDownloaded, fPeerDl, fEvicted, fPeerEvicted>>
       ELSE IF Contains(fkey[p])
       THEN /\ pc' = [pc EXCEPT ![p] = "raster"]
            /\ FetchReturns(p, fDownloaded, fPeerDl, fEvicted, fPeerEvicted)
            /\ UNCHANGED <<Waiting, nextChan, fchan>>
       ELSE /\ Waiting' = [Waiting EXCEPT ![fkey[p]] = nextChan]
            /\ nextChan' = nextChan + 1
            /\ fDownloaded' = [fDownloaded EXCEPT ![p] = TRUE]
            /\ fPeerDl' = [q \in Procs |-> fPeerDl[q] \/ q \in Peers(p, fkey[p])]
            /\ pc' = [pc EXCEPT ![p] = "download"]
            /\ UNCHANGED <<fchan, fEvicted, fPeerEvicted>>
    /\ UNCHANGED <<Cache, closed, files, orphans, fkey, fraster, nRequests, rcVars>>
    /\ UNCHANGED otherVars

\* <-waitChan: released when the channel is closed; MaybeDownload returns nil and
\* Fetch returns true.
AwaitDownload(p) ==
    /\ pc[p] = "wait"
    /\ fchan[p] \in closed
    /\ fchan' = [fchan EXCEPT ![p] = 0]
    /\ pc' = [pc EXCEPT ![p] = "raster"]
    /\ FetchReturns(p, fDownloaded, fPeerDl, fEvicted, fPeerEvicted)
    /\ UNCHANGED <<Cache, Waiting, closed, nextChan, files, orphans, fkey, fraster, nRequests, rcVars>>
    /\ UNCHANGED otherVars

\* The download step as it would be if the error of DownloadFunc were dropped:
\* the entry is added whether or not the file arrived.
Download_IgnoreErr(p) ==
    /\ pc[p] = "download"
    /\ \E ok \in BOOLEAN :
         files' = IF ok THEN files \cup {GetFileName(fkey[p])} ELSE files
    /\ pc' = [pc EXCEPT ![p] = "add"]
    /\ UNCHANGED <<Cache, Waiting, closed, nextChan, orphans, fchan, fkey, fraster, nRequests,
                   fDownloaded, fPeerDl, fEvicted, fPeerEvicted, rcVars>>
    /\ UNCHANGED otherVars

\* c.DownloadFunc(filename, storagePath): on success the file is on disk; on
\* an error MaybeDownload returns it at once, Fetch returns false and the
\* handler answers 404.
Download(p) ==
    /\ pc[p] = "download"
    /\ \E ok \in BOOLEAN :
         IF ok
         THEN /\ files' = files \cup {GetFileName(fkey[p])}
              /\ pc' = [pc EXCEPT ![p] = "add"]
              /\ UNCHANGED <<fkey, fDownloaded, fPeerDl, fEvicted, fPeerEvicted>>
         ELSE /\ pc' = [pc EXCEPT ![p] = "idle"]
              /\ fkey' = [fkey EXCEPT ![p] = 1]
              /\ FetchReturns(p, fDownloaded, fPeerDl, fEvicted, fPeerEvicted)
              /\ UNCHANGED files
    /\ fRepeat' = [fRepeat EXCEPT ![p] = IF pc'[p] = "idle" THEN "no" ELSE @]
    /\ UNCHANGED <<Cache, Waiting, closed, nextChan, orphans, fchan, fraster, nRequests, rcVars>>
    /\ UNCHANGED <<fServed, docVars>>

\* onEvictDelete: the eviction callback of the LRU, os.Remove(storagePath),
\* whose error is logged and otherwise ignored: the file stays when it fails.
onEvictDelete(disk, evicted, removed) ==
    IF removed THEN disk \ {e.value : e \in evicted} ELSE disk

\* c.Cache.Add(filename, storagePath); the LRU calls onEvictDelete on the entry
\* it evicts, under its own lock.
CacheAdd(p) ==
    /\ pc[p] = "add"
    /\ LET evicted == LruAddEvicted(Cache, fkey[p], CacheSize)
           hit(q) == InFetch(q) /\ \E e \in evicted : e.key = fkey[q]
       IN  /\ Cache' = LruAdd(Cache, fkey[p], GetFileName(fkey[p]), CacheSize)
           /\ \E removed \in (IF evicted = {} THEN {TRUE} ELSE BOOLEAN) :
                /\ files' = onEvictDelete(files, evicted, removed)
                /\ orphans' = (orphans \ {GetFileName(fkey[p])})
                                 \cup (IF removed THEN {} ELSE {e.value : e \in evicted})
           /\ fEvicted' = [q \in Procs |-> fEvicted[q] \/ (hit(q) /\ fDownloaded[q])]
           /\ fPeerEvicted' = [q \in Procs |-> fPeerEvicted[q] \/ (hit(q) /\ fPeerDl[q])]
    /\ pc' = [pc EXCEPT ![p] = "close"]
    /\ UNCHANGED <<Waiting, closed, nextChan, fchan, fDownloaded, fPeerDl,
                   fkey, fraster, nRequests, rcVars>>
    /\ UNCHANGED otherVars

\* The end of MaybeDownload as it would be without the delete: the channel is
\* closed and the slot stays in c.Waiting.
CloseSlot_KeepSlot(p) ==
    /\ pc[p] = "close"
    /\ closed' = closed \cup {Waiting[fkey[p]]}
    /\ pc' = [pc EXCEPT ![p] = "raster"]
    /\ FetchReturns(p, fDownloaded, fPeerDl, fEvicted, fPeerEvicted)
    /\ UNCHANGED <<Cache, Waiting, nextChan, files, orphans, fchan, fkey, fraster, nRequests,
                   rcVars>>
    /\ UNCHANGED otherVars

\* close(c.Waiting[filename]); delete(c.Waiting, filename), under WaitLock;
\* MaybeDownload returns nil and Fetch returns true.
CloseSlot(p) ==
    /\ pc[p] = "close"
    /\ closed' = closed \cup {Waiting[fkey[p]]}
    /\ Waiting' = [Waiting EXCEPT ![fkey[p]] = 0]
    /\ pc' = [pc EXCEPT ![p] = "raster"]
    /\ FetchReturns(p, fDownloaded, fPeerDl, fEvicted, fPeerEvicted)
    /\ UNCHANGED <<Cache, nextChan, files, orphans, fchan, fkey, fraster, nRequests, rcVars>>
    /\ UNCHANGED otherVars

(***************************************************************************)
(* RasterCache                                                             *)
(***************************************************************************)
\* The eviction callback as it would be if it did not stop the rasterizer.
onEvicted_NoStop(hs, evicted) == hs

\* onEvicted: the eviction callback of the rasterizer LRU, raster.Stop() on
\* every entry that leaves the cache.
onEvicted(hs, evicted) ==
    [i \in DOMAIN hs |->
        IF \E e \in evicted : e.value = i THEN [hs[i] EXCEPT !.stops = @ + 1] ELSE hs[i]]

\* What the calls in progress for one of `paths` saw happen to their path.
Disturb(paths) ==
    [q \in Procs |-> rDisturbed[q] \/ (InGetRasterizer(q) /\ GetFileName(fkey[q]) \in paths)]

\* Where a goroutine goes on when GetRasterizer returns: a request renders the
\* page (or answers 500 on an error), a direct call is over.
AfterGetRasterizer(p, ok) ==
    IF pc[p] \in {"raster", "run"} /\ ok THEN "render" ELSE "idle"

\* GetRasterizer as it would be without r.rasterLock: the look-up does not wait
\* for the call that is building a rasterizer.
GetRasterizerLock_NoLock(p) ==
    /\ pc[p] \in {"raster", "rlock"}
    /\ LET path == GetFileName(fkey[p])
       IN  IF LruContains(rasterizers, path)
           THEN /\ rasterizers' = LruGet(rasterizers, path)
                /\ fraster' = [fraster EXCEPT ![p] = LruEntry(rasterizers, path).value]
                /\ pc' = [pc EXCEPT ![p] = AfterGetRasterizer(p, TRUE)]
                /\ UNCHANGED rasterLock
           ELSE /\ rasterLock' = p
                /\ pc' = [pc EXCEPT ![p] = IF pc[p] = "raster" THEN "run" ELSE "rrun"]
                /\ UNCHANGED <<rasterizers, fraster>>
    /\ UNCHANGED <<fcVars, fkey, nRequests, handles, rConstructed, rOverlap, rDisturbed>>
    /\ UNCHANGED otherVars

\* GetRasterizer, first half: r.rasterLock.Lock(), then r.rasterizers.Get: a
\* cached rasterizer is returned (the deferred Unlock runs), otherwise the lock
\* stays held while the rasterizer is built.
GetRasterizerLock(p) ==
    /\ pc[p] \in {"raster", "rlock"}
    /\ rasterLock = 0
    /\ LET path == GetFileName(fkey[p])
       IN  IF LruContains(rasterizers, path)
           THEN /\ rasterizers' = LruGet(rasterizers, path)
                /\ fraster' = [fraster EXCEPT ![p] = LruEntry(rasterizers, path).value]
                /\ pc' = [pc EXCEPT ![p] = AfterGetRasterizer(p, TRUE)]
                /\ UNCHANGED rasterLock
           ELSE /\ rasterLock' = p
                /\ pc' = [pc EXCEPT ![p] = IF pc[p] = "raster" THEN "run" ELSE "rrun"]
                /\ UNCHANGED <<rasterizers, fraster>>
    /\ UNCHANGED <<fcVars, fkey, nRequests, handles, rConstructed, rOverlap, rDisturbed>>
    /\ UNCHANGED otherVars

\* GetRasterizer, second half, with the lock held: lazypdf.NewRasterizer and
\* raster.Run(), which fails when the file cannot be opened; on success
\* r.rasterizers.Add, which stops the rasterizer it evicts.  A request whose
\* GetRasterizer fails answers 500.
GetRasterizerRun(p) ==
    /\ pc[p] \in {"run", "rrun"}
    /\ LET path == GetFileName(fkey[p])
           id == Len(handles) + 1
           evicted == LruAddEvicted(rasterizers, path, RasterCacheSize)
       IN  \E ok \in (IF path \in files THEN BOOLEAN ELSE {FALSE}) :
             IF ok
             THEN /\ rasterizers' = LruAdd(rasterizers, path, id, RasterCacheSize)
                  /\ handles' = onEvicted(Append(handles, [path |-> path, stops |-> 0]), evicted)
                  /\ fraster' = [fraster EXCEPT ![p] = id]
                  /\ rConstructed' = [rConstructed EXCEPT ![p] = (pc[p] = "rrun")]
                  /\ rDisturbed' = Disturb({e.key : e \in evicted})
                  /\ pc' = [pc EXCEPT ![p] = AfterGetRasterizer(p, TRUE)]
                  /\ UNCHANGED fkey
             ELSE /\ fraster' = [fraster EXCEPT ![p] = 0]
                  /\ rDisturbed' = Disturb({path})
                  /\ pc' = [pc EXCEPT ![p] = AfterGetRasterizer(p, FALSE)]
                  /\ fkey' = [fkey EXCEPT ![p] = IF pc[p] = "run" THEN 1 ELSE @]
                  /\ UNCHANGED <<rasterizers, handles, rConstructed>>
    /\ rasterLock' = 0
    /\ fRepeat' = [fRepeat EXCEPT ![p] = IF pc'[p] = "idle" THEN "no" ELSE @]
    /\ UNCHANGED <<fcVars, nRequests, rOverlap>>
    /\ UNCHANGED <<fServed, docVars>>

\* raster.GeneratePage and the response: the handler is done with the
\* rasterizer and returns.
Render(p) ==
    /\ pc[p] = "render"
    /\ pc' = [pc EXCEPT ![p] = "idle"]
    /\ fkey' = [fkey EXCEPT ![p] = 1]
    /\ fraster' = [fraster EXCEPT ![p] = 0]
    /\ fServed' = fServed \cup {fkey[p]}
    /\ fRepeat' = [fRepeat EXCEPT ![p] = "no"]
    /\ UNCHANGED <<fcVars, nRequests, rcVars>>
    /\ UNCHANGED docVars

\* A direct call of GetRasterizer(filename) begins.
CallGetRasterizer(p) ==
    /\ pc[p] = "idle"
    /\ nRequests < MaxRequests
    /\ nRequests' = nRequests + 1
    /\ \E k \in Keys :
         /\ fkey' = [fkey EXCEPT ![p] = k]
         /\ rOverlap' = StartOverlap(rOverlap, p,
                            {q \in Procs \ {p} : InGetRasterizer(q) /\ fkey[q] = k})
    /\ fraster' = [fraster EXCEPT ![p] = 0]
    /\ rConstructed' = [rConstructed EXCEPT ![p] = FALSE]
    /\ rDisturbed' = [rDisturbed EXCEPT ![p] = FALSE]
    /\ pc' = [pc EXCEPT ![p] = "rlock"]
    /\ UNCHANGED <<fcVars, rasterizers, rasterLock, handles>>
    /\ UNCHANGED otherVars

\* Remove, first half: r.rasterizers.Contains(filename).
Remove(p) ==
    /\ pc[p] = "idle"
    /\ nRequests < MaxRequests
    /\ nRequests' = nRequests + 1
    /\ \E k \in Keys :
         IF LruContains(rasterizers, GetFileName(k))
         THEN /\ fkey' = [fkey EXCEPT ![p] = k]
              /\ pc' = [pc EXCEPT ![p] = "remove"]
         ELSE UNCHANGED <<fkey, pc>>
    /\ UNCHANGED <<fcVars, fraster, rcVars>>
    /\ UNCHANGED otherVars

\* Remove as it would be if it stopped the rasterizer and left its entry in
\* the cache.
RemoveEntry_KeepEntry(p) ==
    /\ pc[p] = "remove"
    /\ LET path == GetFileName(fkey[p])
           evicted == IF LruContains(rasterizers, path) THEN {LruEntry(rasterizers, path)} ELSE {}
       IN  /\ handles' = onEvicted(handles, evicted)
           /\ rDisturbed' = Disturb({e.key : e \in evicted})
    /\ pc' = [pc EXCEPT ![p] = "idle"]
    /\ UNCHANGED <<fcVars, fkey, fraster, nRequests, rasterizers, rasterLock, rConstructed, rOverlap>>
    /\ UNCHANGED otherVars

\* Remove, second half: r.rasterizers.Remove(filename), which calls onEvicted
\* on the entry when it is still there.
RemoveEntry(p) ==
    /\ pc[p] = "remove"
    /\ LET path == GetFileName(fkey[p])
           evicted == IF LruContains(rasterizers, path) THEN {LruEntry(rasterizers, path)} ELSE {}
       IN  /\ rasterizers' = LruWithout(rasterizers, path)
           /\ handles' = onEvicted(handles, evicted)
           /\ rDisturbed' = Disturb({e.key : e \in evicted})
    /\ pc' = [pc EXCEPT ![p] = "idle"]
    /\ UNCHANGED <<fcVars, fkey, fraster, nRequests, rasterLock, rConstructed, rOverlap>>
    /\ UNCHANGED otherVars

\* Purge: r.rasterizers.Purge(), which calls onEvicted on every entry.
Purge(p) ==
    /\ pc[p] = "idle"
    /\ nRequests < MaxRequests
    /\ nRequests' = nRequests + 1
    /\ LET evicted == {rasterizers[i] : i \in 1..Len(rasterizers)}
       IN  /\ rasterizers' = <<>>
           /\ handles' = onEvicted(handles, evicted)
           /\ rDisturbed' = Disturb({e.key : e \in evicted})
    /\ UNCHANGED <<fcVars, pc, fkey, fraster, rasterLock, rConstructed, rOverlap>>
    /\ UNCHANGED otherVars

\* The requests of the listing's model: they use the file names of the
\* file cache.
\* A document request is served: the file is fetched into the file cache
\* when it is not there, and GetRasterizer returns the cached rasterizer or
\* adds a new one.
documentServed ==
    /\ ls.n < MaxListRequests
    /\ \E k \in Keys :
         LET path == GetFileName(k)
         IN  ls' = [ls EXCEPT
                    !.n = @ + 1,
                    !.listed = FALSE,
                    !.cache = IF LruContains(@, k) THEN @ ELSE LruAdd(@, k, path, ListCacheSize),
                    !.rasterizers = IF LruContains(@, path) THEN LruGet(@, path)
                                    ELSE LruAdd(@, path, k, ListCacheSize)]
    /\ UNCHANGED otherThanListing

\* handleListFilecache: 503 when the node is offline, else the listing.
handleListFilecache ==
    /\ ls.n < MaxListRequests
    /\ \E offline \in BOOLEAN :
         LET keys == [i \in 1..Len(ls.cache) |-> ls.cache[i].key]
             after == ListEntries(ls.cache, ls.rasterizers, keys)
         IN  ls' = IF offline THEN [ls EXCEPT !.n = @ + 1, !.listed = FALSE]
                   ELSE [ls EXCEPT !.n = @ + 1,
                                   !.listed = TRUE,
                                   !.before = [cache |-> ls.cache, rasterizers |-> ls.rasterizers],
                                   !.payload = keys,
                                   !.cache = after[1],
                                   !.rasterizers = after[2]]
    /\ UNCHANGED otherThanListing

(***************************************************************************)
(* Specifications                                                          *)
(***************************************************************************)
\* The file cache under concurrent requests: nothing is cached or on disk.
InitFC == InitWith({})

NextFC ==
    \E p \in Procs :
        \/ HandleImage(p)
        \/ MaybeDownloadLock(p)
        \/ AwaitDownload(p)
        \/ Download(p)
        \/ CacheAdd(p)
        \/ CloseSlot(p)
        \/ GetRasterizerLock(p)
        \/ GetRasterizerRun(p)
        \/ Render(p)

SpecFC == InitFC /\ [][NextFC]_vars

\* The rasterizer cache under concurrent direct calls: the files are on disk.
InitRC == InitWith(Paths)

NextRC ==
    \E p \in Procs :
        \/ CallGetRasterizer(p)
        \/ GetRasterizerLock(p)
        \/ GetRasterizerRun(p)
        \/ Remove(p)
        \/ RemoveEntry(p)
        \/ Purge(p)

SpecRC == InitRC /\ [][NextRC]_vars

\* URL signing: a token is generated and then verified.
NextSig == Sign \/ Verify

SpecSig == InitFC /\ [][NextSig]_vars

\* The document handlers: one request, served by either of them.
NextDoc == handleDocument \/ document

SpecDoc == InitFC /\ [][NextDoc]_vars

\* The parameter checks of Worker.Process, on one call.
NextParams == CheckParams

SpecParams == InitFC /\ [][NextParams]_vars

NextRec == DocumentFetch \/ Tick
SpecRec == InitFC /\ [][NextRec]_vars

NextWorker ==
    \/ ProcessStart
    \/ StorageGet
    \/ SaveToPNG
    \/ Copy
    \/ \E i \in WorkerRequests : StoragePut(i) \/ Cancel(i)
SpecWorker == InitFC /\ [][NextWorker]_vars

NextCipher == CipherPutCall \/ CipherGetCall
SpecCipher == InitFC /\ [][NextCipher]_vars

\* One request through handler.document and Worker.Process.  Every goroutine
\* that can take a step is scheduled in the end, and every call returns.
NextProc ==
    \/ ProcessCall
    \/ fetchGoroutine
    \/ fetchAnnotations
    \/ \E j \in Images : imageFetch(j) \/ imageCreateTemp(j) \/ imageWrite(j) \/ osRemove(j)
    \/ groupWait
    \/ receive
    \/ renderPage
    \/ copyOutput
    \/ answer
SpecProc == InitFC /\ [][NextProc]_vars /\ WF_vars(NextProc)

\* The signal handler of the legacy server.  Time passes, the calls of the
\* handler return and the select proceeds when a case can.
NextShutdown ==
    \/ Signal
    \/ ringShutdown
    \/ PurgeAsync
    \/ purgeEvict
    \/ purgeStuck
    \/ purgeDone
    \/ ShutdownTick
    \/ Exit
SpecShutdown == InitFC /\ [][NextShutdown]_vars /\ WF_vars(NextShutdown)

\* The entry point of the rewritten service.
NextWait ==
    \/ clientStart
    \/ listenFails
    \/ asyncErrorSend
    \/ asyncErrorAdd
    \/ signalNotify
    \/ Interrupt
    \/ handlerReceive
    \/ handlerReturn
    \/ clientStop
SpecWait == InitFC /\ [][NextWait]_vars

\* handler.urlToVerify on a request and on its variants in the other
\* parameters.
NextURL == FirstRequest \/ AddOther \/ RemoveOther \/ ChangeOther
SpecURL == InitFC /\ [][NextURL]_vars

\* Document requests while the node goes offline and comes back.
NextOffline ==
    \/ ManagerPing
    \/ \E p \in Procs : processDocumentParams(p) \/ offlineCheck(p) \/ cacheFetch(p)

SpecOffline == InitFC /\ [][NextOffline]_vars

\* fetchAnnotations: the loop beside the goroutines it started.
NextAnnotations ==
    \/ FetchAnnotation
    \/ annotationsLoop
    \/ \E j \in AnnotationIds : imageGoroutine(j) \/ imageReadSlice(j) \/ imageAssign(j)
    \/ annotationsWait

SpecAnnotations == InitFC /\ [][NextAnnotations]_vars

\* handleDocument with its disconnect watcher: the steps of the handlers and
\* of the goroutines are taken when they can be; the client may never go away.
HandlerStep ==
    \E r \in Watched :
        \/ handleDocumentCall(r)
        \/ earlyChecks(r)
        \/ documentFetch(r)
        \/ documentRasterizer(r)
        \/ socketClosedCheck(r)
        \/ documentServe(r)
        \/ watcherNotified(r)
        \/ watcherHandlerDone(r)

NextHandlers == HandlerStep \/ \E r \in Watched : closeNotify(r)

SpecHandlers == InitFC /\ [][NextHandlers]_vars /\ WF_vars(HandlerStep)

\* handleImage, one request after another.
NextImage ==
    \/ handleImageCall
    \/ handleImageParams
    \/ handleImageFetch
    \/ handleImageRasterizer
    \/ handleImageRender
    \/ handleImageWrite

SpecImage == InitFC /\ [][NextImage]_vars

\* Document requests and listings of the file cache, one after another.
NextListing == documentServed \/ handleListFilecache

SpecListing == InitFC /\ [][NextListing]_vars

(***************************************************************************)
(* Properties of the file cache, checked under SpecFC                      *)
(***************************************************************************)
\* The positions between the creation of a key's slot and its removal.
Downloading == {"download", "add", "close"}

\* C1 as stated: among the Fetch calls for one key that overlap in time,
\* DownloadFunc is invoked at most once: no call invokes it when a call that
\* overlaps it has invoked it too.
C1_AtMostOneDownload ==
    \A p \in Procs : ~(fDownloaded[p] /\ fPeerDl[p])

\* C1 as amended: two downloads of one key are never in flight together, and a
\* call invokes DownloadFunc although an overlapping call for the key has
\* invoked it only when the key was evicted from the LRU after that invocation.
C1_SingleFlight ==
    /\ \A p, q \in Procs :
         (p # q /\ pc[p] \in Downloading /\ pc[q] \in Downloading) => fkey[p] # fkey[q]
    /\ \A p \in Procs : (fDownloaded[p] /\ fPeerDl[p]) => fPeerEvicted[p]

\* A call waits on the channel of the download another call has in flight.
C1_Witness ==
    \E p, q \in Procs :
        /\ pc[p] = "wait" /\ pc[q] \in Downloading /\ fkey[p] = fkey[q]
        /\ fchan[p] = Waiting[fkey[p]] /\ fPeerDl[p] /\ ~fDownloaded[p]

\* C2 as stated: the slot of a key is torn down when its download is over,
\* failed or not: a key has a slot only while a call is between the creation
\* of the slot and its removal.
C2_SlotTornDown ==
    \A k \in Keys :
        Waiting[k] # 0 => \E p \in Procs : fkey[p] = k /\ pc[p] \in Downloading

\* C3 as stated: when the file cache deletes the file of an evicted key,
\* RasterCache.Remove has already run for its path, so no rasterizer is cached
\* for the path once the file is gone.
C3_RemoveBeforeDelete ==
    [][\A k \in Keys :
          (GetFileName(k) \in files /\ GetFileName(k) \notin files')
              => ~LruContains(rasterizers', GetFileName(k))]_vars

Cached(id) == \E i \in 1..Len(rasterizers) : rasterizers[i].value = id

\* Two direct GetRasterizer calls for one path overlapped, both have returned,
\* and one of them found no rasterizer cached.
ConcurrentMiss(p, q) ==
    /\ p # q /\ q \in rOverlap[p]
    /\ ~InGetRasterizer(p) /\ ~InGetRasterizer(q)
    /\ rConstructed[p] \/ rConstructed[q]

C5_StoppedIffLeft ==
    \A id \in DOMAIN handles :
        handles[id].stops = IF Cached(id) THEN 0 ELSE 1

\* One rasterizer has left the cache and is stopped while another is cached
\* and running.
C5_Witness ==
    \E i, j \in DOMAIN handles :
        /\ ~Cached(i) /\ handles[i].stops = 1
        /\ Cached(j) /\ handles[j].stops = 0

\* C6: a stopped rasterizer is never reused: the rasterizer a GetRasterizer
\* call returns is one for the requested path that has not been stopped, hence
\* distinct from every rasterizer stopped before.
C6_NeverReused ==
    [][\A p \in Procs :
          (InGetRasterizer(p) /\ ~InGetRasterizer(p)' /\ fraster'[p] # 0)
              => /\ fraster'[p] \in DOMAIN handles'
                 /\ handles'[fraster'[p]].stops = 0
                 /\ handles'[fraster'[p]].path = GetFileName(fkey[p])]_vars

\* A call has returned a running rasterizer for a path whose earlier
\* rasterizer was stopped.
C6_Witness ==
    \E p \in Procs :
        /\ pc[p] = "idle" /\ fraster[p] # 0 /\ handles[fraster[p]].stops = 0
        /\ \E i \in DOMAIN handles :
             /\ i < fraster[p] /\ handles[i].stops = 1
             /\ handles[i].path = handles[fraster[p]].path

(***************************************************************************)
(* Properties of URL signing, checked under SpecSig                        *)
(***************************************************************************)
\* C9: a token generated for a URL at a time of bucket b is accepted, under the
\* same secret and for the same URL, exactly when the time of the verification
\* lies in bucket b-1, b or b+1.
C9_AcceptedWithinOneBucket ==
    (sig.stage = "verified" /\ sig.vsecret = sig.secret /\ sig.vbase = sig.base)
        => (sig.ok <=> Bucket(sig.now, SigningBucketSize) \in
                          {Bucket(sig.tGen, SigningBucketSize) - 1,
                           Bucket(sig.tGen, SigningBucketSize),
                           Bucket(sig.tGen, SigningBucketSize) + 1})

\* A token is accepted in the bucket after its own.
C9_Witness ==
    /\ sig.stage = "verified" /\ sig.vsecret = sig.secret /\ sig.vbase = sig.base
    /\ sig.ok
    /\ Bucket(sig.now, SigningBucketSize) = Bucket(sig.tGen, SigningBucketSize) + 1

(***************************************************************************)
(* Properties of the document handlers, checked under SpecDoc              *)
(***************************************************************************)
\* The signature of the request handled last does not verify.
BadSignature ==
    /\ req.server # "none"
    /\ ~IsValidSignature(ServerSecret, SigningBucketSize, req.now, RequestURL(req))

C10_ExpiredTTL401 ==
    (req.server # "none" /\ req.ttl # -1 /\ req.ttl < req.now) => resp = 401

\* The page, the width or the scale of a page request is invalid.
BadRenderParams ==
    /\ req.server # "none" /\ req.page # "absent"
    /\ \/ req.page \in {"bad", "zero"}
       \/ ~req.paramsOk
       \/ ~req.inRange

\* C11 as stated: a page request whose page, width or scale is out of bounds
\* causes no file fetch or download and opens no rasterizer.
C11_BoundsBeforeIO == BadRenderParams => io = {}

(***************************************************************************)
(* Properties of the parameter checks, checked under SpecParams            *)
(***************************************************************************)
\* C12: a call is rejected for its parameters exactly when page < 1,
\* width < 0, width > 4096, scale < 0, scale > 3 or dpi > 600; the widths 0 and
\* 4096 and the scales 0 and 3 are accepted.
C12_RejectedExactly ==
    par.stage = "checked" =>
        /\ (par.err # "") <=> \/ par.page < 1
                              \/ par.width < 0 \/ par.width > 4096
                              \/ par.scale < 0 \/ par.scale > 3000
                              \/ par.dpi > 600
        /\ (par.page >= 1 /\ par.width \in {0, 4096} /\ par.scale \in {0, 3000}
               /\ par.dpi <= 600) => par.err = ""

\* The largest width, scale and dpi are accepted together.
C12_Witness ==
    /\ par.stage = "checked" /\ par.err = ""
    /\ par.page = 1 /\ par.width = 4096 /\ par.scale = 3000 /\ par.dpi = 600


\* C13 (as stated): a request that arrives after a request for the same key
\* was answered never invokes the downloader.
C13_NoSecondDownload ==
    \A p \in Procs : fRepeat[p] # "no" => ~fDownloaded[p]

\* C13 (amended): a request that arrives after a request for the same key was
\* answered, and finds the key's entry still in the LRU, is past its Fetch at
\* once: it takes no download slot and does not invoke the downloader.
C13_RepeatServedFromCache ==
    \A p \in Procs : fRepeat[p] = "hit" => pc[p] \in {"raster", "run", "render"} /\ ~fDownloaded[p]

C13_Witness ==
    \E p \in Procs : fRepeat[p] = "hit" /\ pc[p] = "render" /\ fkey[p] \in fServed


\* C14: two requests for the same path whose whitelisted header values differ
\* use different download records; a request whose own record is not cached
\* downloads, and the file a request is served was downloaded with its own
\* header value.
C14_HeadersSeparateDownloads ==
    drec.last.done =>
        /\ \A i \in 1..Len(drec.cache) :
              (drec.cache[i].key.path = drec.last.path
                 /\ drec.cache[i].value.origin # drec.last.headers["DropboxAccessToken"])
              => drec.cache[i].key # drec.last.key
        /\ (drec.last.other /\ ~drec.last.cached) => drec.last.downloaded
        /\ drec.last.ok => drec.last.origin = drec.last.headers["DropboxAccessToken"]

C14_Witness ==
    /\ drec.last.done /\ drec.last.other /\ drec.last.downloaded /\ drec.last.ok
    /\ drec.last.headers["DropboxAccessToken"] = "v2"


\* C15 (as stated): for a cached key requested with newerThan = t, the entry
\* is evicted and the file downloaded again when the file's modification time
\* is not after t, and nothing is downloaded when it is after t or newerThan
\* is absent.  A t of 2^32 or more is after every modification time.
C15_NewerThanRefetch ==
    (drec.last.done /\ drec.last.cached) =>
        CASE drec.last.newerThan.kind = "absent" -> ~drec.last.downloaded
          [] drec.last.newerThan.kind = "number" ->
                IF drec.last.mtime > drec.last.newerThan.n
                THEN ~drec.last.downloaded
                ELSE drec.last.evicted /\ drec.last.downloaded
          [] drec.last.newerThan.kind = "overflow" ->
                drec.last.evicted /\ drec.last.downloaded
          [] OTHER -> TRUE


\* C16: when the artifact cache returns a payload for the request's key, the
\* page is not rendered, no Put is started, and what Process writes to the
\* output is the stored payload.
C16_HitServedFromStorage ==
    \A i \in WorkerRequests :
        wk.reqs[i].hit =>
            /\ ~wk.reqs[i].rendered
            /\ wk.puts[i].stage = "none"
            /\ wk.reqs[i].pc \in {"copy", "done"}
            /\ wk.reqs[i].written => (wk.reqs[i].out = wk.reqs[i].stored /\ wk.reqs[i].ret = "")

C16_Witness ==
    \E i \in WorkerRequests :
        /\ wk.reqs[i].hit /\ wk.reqs[i].written
        /\ wk.reqs[i].out = PNG(wk.reqs[i].page - 1)

\* C17: when the object store reports that the key does not exist, every
\* storage layer returns no payload and no error, and the request goes on to
\* render the page.
C17_MissingIsMiss ==
    /\ \A key \in ArtifactKeys :
          ~wk.bucket[key].present =>
              /\ CacheGet(wk.bucket, key, "ok") = [reader |-> NilReader, err |-> ""]
              /\ CipherGet(wk.bucket, key, "ok") = [reader |-> NilReader, err |-> ""]
              /\ BypassGet(FALSE, wk.bucket, key, "ok") = [reader |-> NilReader, err |-> ""]
    /\ \A i \in WorkerRequests :
          wk.reqs[i].absent =>
              \/ wk.reqs[i].pc = "render"
              \/ wk.reqs[i].rendered
              \/ wk.reqs[i].ret = "fail to extract the PNG from the PDF"

C17_Witness ==
    \E i \in WorkerRequests : wk.reqs[i].absent /\ wk.reqs[i].rendered /\ wk.reqs[i].written

\* C18: a failure of the Put never fails the request: whenever the page was
\* rendered and the output took the bytes, Process returns success and the
\* rendered bytes, whether the Put succeeded, failed or has not run yet.
C18_PutFailureOnlyLogged ==
    \A i \in WorkerRequests :
        (wk.reqs[i].rendered /\ wk.reqs[i].written) =>
            (wk.reqs[i].ret = "" /\ wk.reqs[i].out = PNG(wk.reqs[i].page - 1))

C18_Witness ==
    \E i \in WorkerRequests :
        /\ wk.reqs[i].rendered /\ wk.reqs[i].written
        /\ wk.puts[i].outcome = "failed"
        /\ wk.reqs[i].ret = ""

\* C19: the Put goroutine runs on a context that the cancellation of the
\* request does not reach: its context is never done, and a Put that ran was
\* never aborted.
C19_PutSurvivesCancel ==
    \A i \in WorkerRequests :
        wk.puts[i].stage # "none" =>
            (~Done(wk.puts[i].ctx, i) /\ wk.puts[i].outcome # "aborted")

C19_Witness ==
    \E i \in WorkerRequests :
        wk.puts[i].afterCancel /\ wk.puts[i].outcome = "stored" /\ wk.bucket[wk.puts[i].key].present


\* C20: after a Put(k, v) through the cipher layer succeeded, a following
\* Get(k) through the cipher layer that the object store answers returns
\* exactly v, and no error.
C20_PutThenGet ==
    (ci.last.op = "get" /\ ci.last.s3 = "ok" /\ ci.put[ci.last.key].ok) =>
        (ci.last.err = "" /\ ci.last.reader = Reader(ci.put[ci.last.key].v))

C20_Witness ==
    /\ ci.last.op = "get" /\ ci.put[ci.last.key].ok
    /\ ci.last.reader = Reader(<<1, 0>>)
    /\ ci.bucket[ci.last.key].body # <<1, 0>>


\* A request of the legacy server whose page rendering failed: everything
\* before the rendering went well.
RenderFailure ==
    /\ req.server = "legacy"
    /\ isValidSignature(req)
    /\ req.fail = "none"
    /\ req.page = "ok" /\ req.paramsOk
    /\ req.outcome \in {"badpage", "timeout", "error"}

\* C21: a render failure is answered with 404 when the page is not part of
\* the document, 503 when rendering timed out, 500 for every other renderer
\* error.
C21_RenderFailureStatus ==
    RenderFailure =>
        resp = (CASE req.outcome = "badpage" -> 404
                  [] req.outcome = "timeout" -> 503
                  [] OTHER -> 500)

C21_Witness ==
    RenderFailure /\ req.outcome = "timeout" /\ resp = 503 /\ "render" \in io

(***************************************************************************)
(* Properties of Worker.Process under handler.document, checked under      *)
(* SpecProc                                                                *)
(***************************************************************************)
\* The status the failure of Process calls for: 404 when an origin reported
\* an object absent, 400 for a client error, 500 for every other failure.
StatusOfCause(text) ==
    IF text = "object absent" THEN 404
    ELSE IF text \in {"invalid token", "invalid path"} THEN 400
    ELSE 500

\* C22 as stated: the document handler answers 404 when the origin reports
\* the object absent, 400 for a client error, and 500 for every other failure
\* of Process.
C22_StatusByFailure ==
    pr.pc = "answered" =>
        /\ pr.absent => pr.status = 404
        /\ pr.ret # NoError => pr.status = StatusOfCause(Cause(pr.ret))

\* C22 as amended: when the request's context is not done once Process has
\* returned, the status follows what made Process fail (404 for an object
\* the origin reports absent, the document or an annotation image; 400 for a
\* client error; 500 for every other failure), and an absent document is
\* answered with 404 when Process received the result of the fetch.  When the
\* context is done the handler answers nothing (cancelled) or 408 (deadline
\* passed), whatever Process returned.
C22_StatusByFailureWhenLive ==
    pr.pc = "answered" =>
        IF pr.ctx = "live"
        THEN /\ (pr.absent /\ pr.fpc = "done") => pr.status = 404
             /\ pr.ret # NoError => pr.status = StatusOfCause(Cause(pr.ret))
        ELSE pr.status = (IF pr.ctx = "canceled" THEN 0 ELSE 408)

\* The origin reported the document absent, Process received the fetch's
\* error while the request was alive, and the answer is 404.
C22_Witness ==
    /\ pr.pc = "answered" /\ pr.ctx = "live" /\ pr.format = "png"
    /\ pr.absent /\ pr.fpc = "done" /\ pr.status = 404
    /\ ErrorsIs(pr.ret, "notFound")

DeadlineExpired ==
    /\ req.server = "v2" /\ req.traceOk /\ req.ctx = "deadline"
    /\ \/ req.page = "absent"
       \/ req.page \in {"zero", "ok"} /\ req.paramsOk

\* C23 as stated: a request that fails because its deadline expired is
\* answered with status 503.
C23_Deadline503 == DeadlineExpired => resp = 503

\* C23 as amended: handler.document answers a request whose deadline expired
\* with 408, whatever the service returned, and never answers 503: that is
\* an answer of the legacy server only.
C23_Deadline408 ==
    /\ DeadlineExpired => resp = 408
    /\ resp = 503 => req.server = "legacy"

\* A page request with a valid signature whose deadline passed while the
\* service worked: 408.
C23_Witness ==
    /\ DeadlineExpired /\ req.page = "ok" /\ req.outcome = "ok"
    /\ Process(req) = "" /\ resp = 408

(***************************************************************************)
(* Properties of the signal handler, checked under SpecShutdown            *)
(***************************************************************************)
\* C25: after SIGINT or SIGTERM the process always exits with code 130: it
\* starts the purge and exits as soon as the purge signals completion or the
\* shutdown budget elapses, whichever comes first, and never waits for the
\* purge beyond the budget.
C25_ExitAfterSignal ==
    /\ [](sh.pc = "select" => sh.elapsed <= ShutdownTimeout)
    /\ [](sh.pc = "exited" =>
            /\ sh.code = 130 /\ sh.purge # "none"
            /\ sh.elapsed = (IF sh.doneAt >= 0 THEN sh.doneAt ELSE ShutdownTimeout))
    /\ (sh.pc # "running") ~> (sh.pc = "exited" /\ sh.code = 130)

\* The purge got stuck, and the process exited with 130 when the budget had
\* elapsed.
C25_Witness ==
    /\ sh.pc = "exited" /\ sh.signal = "SIGTERM" /\ sh.code = 130
    /\ sh.purge = "stuck" /\ sh.via = "timer" /\ sh.elapsed = ShutdownTimeout

(***************************************************************************)
(* Properties of the entry point, checked under SpecWait                   *)
(***************************************************************************)
\* C26: when the asynchronous error handler was invoked, and no interrupt
\* signal was sent, the process exits with a non-zero status.
C26_AsyncErrorExitsNonZero ==
    (wt.pc = "exited" /\ wt.interrupts = 0 /\ wt.server \in {"add", "done"}) => wt.code # 0

C28_BypassSkipsOnlyWrites ==
    /\ \A i \in WorkerRequests :
         wk.puts[i].stage = "done" =>
             (wk.reqs[i].bypass <=> wk.puts[i].outcome = "bypassed")
    /\ wk.n > 0 =>
         LET r == wk.reqs[wk.n]
         IN  (r.rendered \/ r.hit) => (r.hit \/ r.absent)

(***************************************************************************)
(* The waiters of the file cache, checked under SpecFC                     *)
(***************************************************************************)
\* C29: a Fetch that found an in-flight slot and was released by its signal
\* reports success only if the key is present in the cache at that moment: it
\* never reports success for a key that is absent.
C29_WaiterSucceedsOnlyIfPresent ==
    [][\A p \in Procs : AwaitDownload(p) => Contains(fkey[p])]_vars


\* C30: for one key the steps of a successful download happen in the order
\* download completes, LRU insert, signal close, slot delete, with close and
\* delete done together under the lock: no waiter is released before the key
\* was inserted, and no caller ever finds a slot whose signal is already
\* closed.
C30_DownloadStepsInOrder ==
    /\ [](\A k \in Keys : Waiting[k] # 0 => Waiting[k] \notin closed)
    /\ [][\A p \in Procs :
            /\ (pc'[p] = "add" /\ pc[p] # "add") =>
                   (pc[p] = "download" /\ GetFileName(fkey[p]) \in files')
            /\ (pc'[p] = "close" /\ pc[p] # "close") =>
                   (pc[p] = "add" /\ LruContains(Cache', fkey[p]))
            /\ AwaitDownload(p) => fchan[p] \in closed]_vars
    /\ [][\A k \in Keys :
            (Waiting[k] # 0 /\ Waiting[k] \in closed' \ closed) =>
                /\ \E q \in Procs : pc[q] = "close" /\ fkey[q] = k
                /\ Waiting'[k] = 0]_vars

\* A download succeeded, its key is in the LRU, its channel is closed and its
\* slot is gone, and a call is still waiting on the channel.
C30_Witness ==
    \E p \in Procs :
        /\ pc[p] = "wait" /\ fchan[p] \in closed
        /\ Contains(fkey[p]) /\ Waiting[fkey[p]] = 0

\* C31 as stated: a request whose signature is invalid touches nothing: no
\* fetch, no artifact store, no annotation lookup and no rasterizer.
C31_BadSignatureNoIO == BadSignature => io = {}

\* C31 as the code has it: the same, for RasterHttpServer.handleDocument
\* when a URL signing secret is configured (without one the signature is not
\* looked at), and for handler.document always.
C31_CheckedSignatureNoIO ==
    (BadSignature /\ (req.server = "legacy" => req.secretSet)) => io = {}

\* A request to handler.document with a bad signature and nothing else wrong.
C31_Witness ==
    /\ BadSignature /\ io = {} /\ resp = 400
    /\ req.server = "v2" /\ req.traceOk /\ req.page = "ok" /\ req.paramsOk
    /\ req.inRange /\ req.outcome = "ok" /\ req.ctx = "live"

\* The error of each check of the call, looked at with every other field in
\* order: page, width, scale, dpi, signature.
ErrorsAlone ==
    <<ProcessChecks(par.page, 0, 0, 0, TRUE), ProcessChecks(1, par.width, 0, 0, TRUE),
      ProcessChecks(1, 0, par.scale, 0, TRUE), ProcessChecks(1, 0, 0, par.dpi, TRUE),
      ProcessChecks(1, 0, 0, 0, par.sigOk)>>

RECURSIVE FirstError(_)
FirstError(errs) ==
    IF errs = <<>> THEN ""
    ELSE IF Head(errs) # "" THEN Head(errs)
    ELSE FirstError(Tail(errs))

\* C32: Process returns the error of the first check that fails, in the order
\* page, width, scale, dpi, signature, whatever the fields checked later hold.
C32_FirstFailingCheck ==
    par.stage = "checked" => par.ret = FirstError(ErrorsAlone)

\* A call that fails the scale check, the dpi check and the signature check
\* is told about its scale.
C32_Witness ==
    /\ par.stage = "checked" /\ par.page = 1 /\ par.width = 0
    /\ par.scale > 3000 /\ par.dpi > 600 /\ ~par.sigOk
    /\ par.ret = "invalid scale, can't be bigger than 3"

\* C33: every path that has a rasterizer in the rasterizer cache is the
\* storage path of an entry of the file cache.
C33_HandleOnlyForCachedFile ==
    \A i \in 1..Len(rasterizers) :
        \E j \in 1..Len(Cache) : Cache[j].value = rasterizers[i].key

\* C34: no page is rendered on a rasterizer that has been stopped: the handle
\* a request renders on was not stopped since GetRasterizer returned it.
C34_NoRenderOnStoppedHandle ==
    [][\A p \in Procs : Render(p) => handles[fraster[p]].stops = 0]_vars

\* C35: a request that met the offline check while the node was marked
\* offline calls no download: it is served from the cache or answered 503.
C35_OfflineNoDownload ==
    \A p \in Procs : ofl.r[p].offAtCheck => ~ofl.r[p].downloaded

\* C36: the fetch goroutine Process started comes to its end: its send of the
\* payload or of the error is received.
C36_FetchGoroutineEnds == [](pr.fpc # "none" => <>(pr.fpc = "done"))

\* The annotations of the requested page, in the order the storage gave them.
RECURSIVE OnPage(_, _)
OnPage(original, i) ==
    IF i > Len(original) THEN <<>>
    ELSE IF original[i].onPage THEN <<i>> \o OnPage(original, i + 1)
    ELSE OnPage(original, i + 1)

\* C37: when fetchAnnotations returns without an error, its result is the
\* annotations of the requested page in their original order, and each image
\* annotation in it carries the path of its temporary file.
C37_AnnotationsWithTempPaths ==
    (an.pc = "returned" /\ ~an.err) =>
        /\ [k \in 1..Len(an.result) |-> an.result[k].id] = OnPage(an.original, 1)
        /\ \A k \in 1..Len(an.result) :
             an.result[k].kind = "image" => an.result[k].location = "tmp"

\* C38: the goroutine that watches for the client's disconnect ends for every
\* request: once the handler has returned handlerDone is closed, so the
\* goroutine's select can go on, and the goroutine does end, whether or not
\* the close notification fires.
C38_WatcherEnds ==
    /\ [](\A r \in Watched : (hd[r].pc = "returned" /\ hd[r].watcher = "waiting")
                                 => hd[r].handlerDone)
    /\ \A r \in Watched : [](hd[r].watcher = "waiting" => <>(hd[r].watcher = "ended"))

\* A goroutine has ended on handlerDone; the notification never fired.
C38_Witness ==
    \E r \in Watched :
        /\ hd[r].pc = "returned" /\ hd[r].watcher = "ended"
        /\ ~hd[r].notified /\ ~hd[r].socketClosed

\* C39: once the handler has answered a request with an error status it does
\* nothing more for it, no fetch, no render and no write, and no request
\* is given a status twice.
C39_NothingAfterErrorStatus ==
    /\ \A i \in 1..Len(hi.did) : hi.did[i] \in ErrorStatuses => i = Len(hi.did)
    /\ Cardinality({i \in 1..Len(hi.did) : hi.did[i] \in ErrorStatuses \cup {"body"}}) <= 1

\* C40: a listing of the file cache leaves both caches as they were: the same
\* entries in the same order of eviction.
C40_ListingChangesNothing ==
    ls.listed => (ls.cache = ls.before.cache /\ ls.rasterizers = ls.before.rasterizers)

====
